---------------------------- MODULE Spec2Model ----------------------------
(***************************************************************************)
(* Similarity matcher and mapping generator of the AYUSH / ICD-11          *)
(* terminology service, together with the concept_mappings table it        *)
(* writes to.                                                              *)
(*                                                                         *)
(* Conventions.  A JavaScript string is a sequence of one-character        *)
(* strings.  A JavaScript value is a record [t, s, a]: t is its type, s    *)
(* its characters when it is a string, a its elements when it is an array. *)
(* The four fuzzball metrics are integers 0..100 (the similarity method    *)
(* divides them by 100); a composite score is held in thousandths, so the  *)
(* weights 0.4/0.2/0.2/0.2 are 4/2/2/2 and the thresholds 0.6 and 0.8 are  *)
(* 600 and 800.  For the metric values used here the IEEE-754 evaluation   *)
(* of the weighted sum compares with 0.6 and 0.8 as the exact sum does.    *)
(***************************************************************************)
EXTENDS Integers, Sequences, FiniteSets, TLC

(***************************************************************************)
(* JavaScript values                                                       *)
(***************************************************************************)
Undefined == [t |-> "undefined", s |-> <<>>, a |-> <<>>]

Str(chars) == [t |-> "string", s |-> chars, a |-> <<>>]

Arr(elems) == [t |-> "array", s |-> <<>>, a |-> elems]

JsNull == [t |-> "null", s |-> <<>>, a |-> <<>>]

\* a number: a holds its value
Num(n) == [t |-> "number", s |-> <<>>, a |-> <<n>>]

\* ToBoolean: undefined, null, the empty string and 0 are falsy, an array
\* is truthy.
Truthy(v) ==
  CASE v.t = "undefined" -> FALSE
    [] v.t = "null"      -> FALSE
    [] v.t = "string"    -> v.s # <<>>
    [] v.t = "number"    -> v.a # <<0>>
    [] OTHER             -> TRUE

\* a value with the methods of String.prototype (toLowerCase, trim)
IsString(v) == v.t = "string"

IsArray(v) == v.t = "array"

(***************************************************************************)
(* Characters                                                              *)
(***************************************************************************)
WordChars == {"a", "b", "c", "A", "B", "C", "_", "1"}

SpaceChars == {" ", "\t"}

ToLowerChar(c) ==
  CASE c = "A" -> "a"
    [] c = "B" -> "b"
    [] c = "C" -> "c"
    [] OTHER   -> c

RECURSIVE MapLower(_)
MapLower(s) ==
  IF s = <<>> THEN <<>> ELSE <<ToLowerChar(Head(s))>> \o MapLower(Tail(s))

\* a replace that deletes the punctuation: .replace(/[^\w\s]/g, '')
RECURSIVE ReplacePunct_Deletes(_)
ReplacePunct_Deletes(s) ==
  IF s = <<>> THEN <<>>
  ELSE (IF Head(s) \in WordChars \cup SpaceChars THEN <<Head(s)>> ELSE <<>>)
         \o ReplacePunct_Deletes(Tail(s))

\* .replace(/[^\w\s]/g, ' ')
RECURSIVE ReplacePunct(_)
ReplacePunct(s) ==
  IF s = <<>> THEN <<>>
  ELSE <<IF Head(s) \in WordChars \cup SpaceChars THEN Head(s) ELSE " ">>
         \o ReplacePunct(Tail(s))

\* .replace(/\s+/g, ' ')
RECURSIVE CollapseSpaces(_)
CollapseSpaces(s) ==
  IF s = <<>> THEN <<>>
  ELSE IF Head(s) \in SpaceChars
       THEN IF Tail(s) # <<>> /\ Head(Tail(s)) \in SpaceChars
            THEN CollapseSpaces(Tail(s))
            ELSE <<" ">> \o CollapseSpaces(Tail(s))
       ELSE <<Head(s)>> \o CollapseSpaces(Tail(s))

RECURSIVE TrimLeft(_)
TrimLeft(s) ==
  IF s # <<>> /\ Head(s) \in SpaceChars THEN TrimLeft(Tail(s)) ELSE s

RECURSIVE TrimRight(_)
TrimRight(s) ==
  IF s # <<>> /\ s[Len(s)] \in SpaceChars
  THEN TrimRight(SubSeq(s, 1, Len(s) - 1))
  ELSE s

\* String.prototype.trim
Trim(s) == TrimRight(TrimLeft(s))

\* normalizeText of a value that is falsy or a string: the characters of
\* the string it returns
normalizeText(text) ==
  IF ~Truthy(text) THEN <<>>
  ELSE Trim(CollapseSpaces(ReplacePunct(MapLower(text.s))))

\* text.toLowerCase is not a function: normalizeText throws a TypeError
normalizeTextThrows(text) == Truthy(text) /\ ~IsString(text)

(***************************************************************************)
(* Code objects and the searchable text                                    *)
(***************************************************************************)
\* the scalar fields with title pushed before display
ScalarFields_TitleFirst ==
  <<"title", "display", "name_english", "description", "definition",
    "longDefinition", "namc_term">>

ScalarFields == <<"display", "title", "name_english", "description",
                  "definition", "longDefinition", "namc_term">>

DashFields == <<"short_definition", "long_definition">>

ListFields == <<"synonym", "inclusion">>

TextFields ==
  {ScalarFields[k] : k \in DOMAIN ScalarFields}
    \cup {DashFields[k] : k \in DOMAIN DashFields}
    \cup {ListFields[k] : k \in DOMAIN ListFields}

Dash == <<"-">>

\* A code object: its code, its id and its textual fields.
CodeObject(code, id, fields) ==
  [code |-> code, id |-> id,
   text |-> [f \in TextFields |->
               IF f \in DOMAIN fields THEN fields[f] ELSE Undefined]]

RECURSIVE PushScalars(_, _)
PushScalars(obj, k) ==
  IF k > Len(ScalarFields) THEN <<>>
  ELSE (IF Truthy(obj.text[ScalarFields[k]])
        THEN <<obj.text[ScalarFields[k]]>> ELSE <<>>)
       \o PushScalars(obj, k + 1)

RECURSIVE PushDashed(_, _)
PushDashed(obj, k) ==
  IF k > Len(DashFields) THEN <<>>
  ELSE (IF Truthy(obj.text[DashFields[k]])
           /\ obj.text[DashFields[k]] # Str(Dash)
        THEN <<obj.text[DashFields[k]]>> ELSE <<>>)
       \o PushDashed(obj, k + 1)

RECURSIVE PushLists(_, _)
PushLists(obj, k) ==
  IF k > Len(ListFields) THEN <<>>
  ELSE (IF Truthy(obj.text[ListFields[k]])
           /\ IsArray(obj.text[ListFields[k]])
        THEN obj.text[ListFields[k]].a ELSE <<>>)
       \o PushLists(obj, k + 1)

\* the predicate of textParts.filter
KeepPart(v) == Truthy(v) /\ v # Str(Dash) /\ Trim(v.s) # <<>>

RECURSIVE JoinParts(_)
JoinParts(parts) ==
  IF parts = <<>> THEN <<>>
  ELSE IF Len(parts) = 1 THEN Head(parts).s
  ELSE Head(parts).s \o <<" ">> \o JoinParts(Tail(parts))

\* text.trim is not a function: the filter of createSearchableText throws
\* a TypeError on a part that is truthy, is not '-' and is not a string
createSearchableTextThrows(codeObject) ==
  LET textParts == PushScalars(codeObject, 1) \o PushDashed(codeObject, 1)
                     \o PushLists(codeObject, 1)
  IN \E k \in DOMAIN textParts :
       /\ Truthy(textParts[k])
       /\ textParts[k] # Str(Dash)
       /\ ~IsString(textParts[k])

\* createSearchableText, when it does not throw
createSearchableText(codeObject) ==
  JoinParts(SelectSeq(PushScalars(codeObject, 1)
                        \o PushDashed(codeObject, 1)
                        \o PushLists(codeObject, 1),
                      KeepPart))


(***************************************************************************)
(* Bounds and the records the operations are called with                   *)
(***************************************************************************)
MaxRuns == 2

MaxClock == 1

MaxResultsBound == 2

\* Ayurveda code objects.  SrcA1 and SrcA2 carry the same code with
\* different texts; SrcB normalizes to the text of SrcA1; SrcE has no text.
SrcA1 == CodeObject("A", "", [display |-> Str(<<"A", "b">>)])

SrcA2 ==
  CodeObject("A", "", [display |-> Str(<<"c">>),
                       short_definition |-> Str(Dash)])

SrcB ==
  CodeObject("B", "", [namc_term |-> Str(<<"a", "b">>),
                       long_definition |-> Str(Dash)])

SrcE == CodeObject("E", "", [short_definition |-> Str(Dash)])

\* ICD-11 code objects.  TgtY has no code (its id is used) and normalizes
\* to the text of TgtX2; TgtZ normalizes to the text of TgtX1.
TgtX1 == CodeObject("X", "", [title |-> Str(<<"a", "!">>)])

TgtX2 == CodeObject("X", "", [display |-> Str(<<"b">>)])

TgtY ==
  CodeObject("", "Y", [title |-> Str(<<"B">>),
                       synonym |-> Arr(<<Str(Dash), Str(<<" ">>)>>)])

TgtZ ==
  CodeObject("Z", "", [definition |-> Str(<<" ", "a">>),
                       inclusion |-> Arr(<<Undefined>>)])

\* eleven sources: the shortest batch that reaches the periodic pause
Eleven == [k \in 1..11 |-> IF k = 11 THEN SrcB ELSE SrcA1]

TargetLists ==
  {<<>>, <<TgtX1, TgtY>>, <<TgtX2, TgtZ>>, <<TgtX1, TgtY, TgtZ>>}

\* the batches generateMappings is called with: sources and targets
Workloads ==
  {<<<<SrcA1, SrcB>>, <<TgtX1, TgtY>>>>,
   <<<<SrcA2>>, <<TgtX1, TgtY>>>>,
   <<Eleven, <<>>>>}

SourceObjects == {SrcA1, SrcA2, SrcB, SrcE}

TargetObjects == {TgtX1, TgtX2, TgtY, TgtZ}

MaxResultsValues == (-1)..MaxResultsBound

(***************************************************************************)
(* The fuzzball library: four deterministic metrics with values 0..100.    *)
(* Its results on the texts of the model are the table fuzzball, fixed     *)
(* when the process starts and never changed.                              *)
(***************************************************************************)
methods == <<"ratio", "partial_ratio", "token_sort_ratio", "token_set_ratio">>

\* the weights with the heavy one on token_set_ratio
weights_RatioLast == <<2, 2, 2, 4>>

weights == <<4, 2, 2, 2>>

Methods == {methods[k] : k \in DOMAIN methods}

Profile(r, p, ts, tset) ==
  [ratio |-> r, partial_ratio |-> p,
   token_sort_ratio |-> ts, token_set_ratio |-> tset]

Profiles ==
  {Profile(50, 60, 60, 60), Profile(60, 60, 60, 60),
   Profile(80, 80, 80, 80), Profile(100, 100, 100, 100)}

SourceTexts ==
  {normalizeText(Str(createSearchableText(o))) : o \in SourceObjects}
    \ {<<>>}

TargetTexts ==
  {normalizeText(Str(createSearchableText(o))) : o \in TargetObjects}
    \ {<<>>}

FuzzTables == [SourceTexts \X TargetTexts -> Profiles]

\* the tables the batches are run with: the text of SrcA2 scores 0.6
\* against that of TgtX1 and 0.56 against that of TgtY
GenTables ==
  {tb \in FuzzTables :
     /\ tb[<<<<"c">>, <<"a">>>>] = Profile(60, 60, 60, 60)
     /\ tb[<<<<"c">>, <<"b">>>>] = Profile(50, 60, 60, 60)
     /\ tb[<<<<"a", "b">>, <<"a">>>>] = Profile(80, 80, 80, 80)
     /\ tb[<<<<"a", "b">>, <<"b">>>>].ratio \in {60, 100}}

VARIABLES
  fuzzball,          \* the library's results on the texts of the model
  concept_mappings,  \* the rows of table concept_mappings
  sqlite_sequence,   \* largest id ever given to a row of concept_mappings
  now,               \* CURRENT_TIMESTAMP when the table was last written
  pc,                \* position of the generateMappings invocation
  ayurvedaCodes,     \* its first argument
  icd11Codes,        \* its second argument
  options,           \* maxMatchesPerCode, saveToDatabase, overwriteExisting
  i,                 \* index of the source loop
  matches,           \* result of findBestMatches for source i
  m,                 \* position in matches of the mapping being saved
  allMappings,       \* the accumulated mappings
  result,            \* the value generateMappings returned
  saveCalls,         \* saveMappingToDatabase calls issued by this invocation
  pending,           \* the mappings of its calls that have not completed
  writeLog,          \* the mappings whose statement the store has run
  errorLog,          \* messages written by console.error
  before,            \* the table when this invocation was called
  prev,              \* the invocation before this one: how it ended, its
                     \* options, and whether its arguments were the same
  runs,              \* number of invocations started
  found,             \* a findBestMatches call of its own, and its result
  scored,            \* a call of the normalizer, the text builder or the
                     \* scorer on its own, and its outcome
  calls,             \* two generateMappings invocations in flight at once
  request,           \* a request to a path under /admin, and its answer
  http,              \* the request the server is handling, and its response
  immediates,        \* callbacks queued with setImmediate, oldest first
  audit_events,      \* the rows of table audit_events
  fhir_resources,    \* the rows of table fhir_resources
  served             \* the last call of the ConceptMap service or of a
                     \* route that writes concept_mappings, and how it ended

tableVars == <<concept_mappings, sqlite_sequence, now>>

argVars == <<ayurvedaCodes, icd11Codes, options>>

loopVars == <<i, matches, m, allMappings, saveCalls, pending,
              writeLog>>

historyVars == <<before, prev, runs>>

batchVars == <<pc, argVars, loopVars, result, errorLog, historyVars>>

otherVars == <<scored, calls, request>>

cacheVars == <<fhir_resources, served>>

serverVars == <<http, immediates, audit_events, cacheVars>>

vars ==
  <<fuzzball, tableVars, pc, argVars, loopVars, result, errorLog,
    historyVars, found, otherVars, serverVars>>

(***************************************************************************)
(* Similarity scorer                                                       *)
(***************************************************************************)
similarityThreshold == 600

highConfidenceThreshold == 800

\* a calculateSimilarity for which two texts that are both empty after
\* normalization are identical texts
calculateSimilarity_EmptyEqual(text1, text2, method) ==
  IF ~Truthy(text1) \/ ~Truthy(text2) THEN 0
  ELSE LET normalizedText1 == normalizeText(text1)
           normalizedText2 == normalizeText(text2)
       IN IF normalizedText1 = <<>> /\ normalizedText2 = <<>> THEN 100
          ELSE IF normalizedText1 = <<>> \/ normalizedText2 = <<>> THEN 0
          ELSE fuzzball[<<normalizedText1, normalizedText2>>][method]

\* calculateSimilarity of two values that are falsy or strings
calculateSimilarity(text1, text2, method) ==
  IF ~Truthy(text1) \/ ~Truthy(text2) THEN 0
  ELSE LET normalizedText1 == normalizeText(text1)
           normalizedText2 == normalizeText(text2)
       IN IF normalizedText1 = <<>> \/ normalizedText2 = <<>> THEN 0
          ELSE fuzzball[<<normalizedText1, normalizedText2>>][method]

RECURSIVE WeightedSum(_, _)
WeightedSum(scores, k) ==
  IF k > Len(scores) THEN 0
  ELSE scores[k] * weights[k] + WeightedSum(scores, k + 1)

calculateCompositeSimilarity(text1, text2) ==
  LET scores == [k \in DOMAIN methods |->
                   calculateSimilarity(text1, text2, methods[k])]
  IN [composite |-> WeightedSum(scores, 1),
      individual |-> [ratio |-> scores[1],
                      partial_ratio |-> scores[2],
                      token_sort_ratio |-> scores[3],
                      token_set_ratio |-> scores[4]]]

\* getConfidenceLevel with strict comparisons
getConfidenceLevel_Strict(score) ==
  IF score > highConfidenceThreshold THEN "high"
  ELSE IF score > similarityThreshold THEN "medium"
  ELSE "low"

getConfidenceLevel(score) ==
  IF score >= highConfidenceThreshold THEN "high"
  ELSE IF score >= similarityThreshold THEN "medium"
  ELSE "low"

(***************************************************************************)
(* Match ranker                                                            *)
(***************************************************************************)
\* a || b on strings
OrElse(a, b) == IF a # "" THEN a ELSE b

OrElseValue(a, b) == IF Truthy(a) THEN a ELSE b

\* the loop over icd11Codes: the matches at or above the threshold
RECURSIVE CollectMatches(_, _, _)
CollectMatches(ayurvedaCode, icd11Codes_, k) ==
  IF k > Len(icd11Codes_) THEN <<>>
  ELSE LET icd11Code == icd11Codes_[k]
           ayurvedaSearchText == createSearchableText(ayurvedaCode)
           icd11SearchText == createSearchableText(icd11Code)
           similarityResult ==
             calculateCompositeSimilarity(Str(ayurvedaSearchText),
                                          Str(icd11SearchText))
       IN (IF similarityResult.composite >= similarityThreshold
           THEN <<[ayurveda_code |-> ayurvedaCode.code,
                   icd11_code |-> OrElse(icd11Code.code, icd11Code.id),
                   icd11_display |->
                     OrElseValue(icd11Code.text["display"],
                                 icd11Code.text["title"]),
                   similarity_score |-> similarityResult.composite,
                   similarity_details |-> similarityResult.individual,
                   confidence |->
                     getConfidenceLevel(similarityResult.composite),
                   ayurveda_text |-> ayurvedaSearchText,
                   icd11_text |-> icd11SearchText]>>
           ELSE <<>>)
          \o CollectMatches(ayurvedaCode, icd11Codes_, k + 1)

\* the comparator with its operands swapped
CompareMatches_Ascending(a, b) == a.similarity_score - b.similarity_score

\* the comparator of the sort: negative when a goes before b
CompareMatches(a, b) == b.similarity_score - a.similarity_score

\* an insertion that puts an element before the elements equal to it
RECURSIVE InsertSorted_BeforeEqual(_, _)
InsertSorted_BeforeEqual(sorted, x) ==
  IF sorted = <<>> THEN <<x>>
  ELSE IF CompareMatches(x, Head(sorted)) <= 0
       THEN <<x>> \o sorted
       ELSE <<Head(sorted)>> \o InsertSorted_BeforeEqual(Tail(sorted), x)

\* Array.prototype.sort is stable: insert each element, left to right,
\* behind the elements the comparator does not put after it.
RECURSIVE InsertSorted(_, _)
InsertSorted(sorted, x) ==
  IF sorted = <<>> THEN <<x>>
  ELSE IF CompareMatches(x, Head(sorted)) < 0
       THEN <<x>> \o sorted
       ELSE <<Head(sorted)>> \o InsertSorted(Tail(sorted), x)

RECURSIVE SortMatches(_, _)
SortMatches(list, k) ==
  IF k = 0 THEN <<>>
  ELSE InsertSorted(SortMatches(list, k - 1), list[k])

\* slice(0, end + 1)
SliceFromStart_OneMore(list, end) ==
  SubSeq(list, 1, IF end + 1 > Len(list) THEN Len(list)
                  ELSE IF end + 1 < 0 THEN 0 ELSE end + 1)

\* Array.prototype.slice(0, end) for an integer end
SliceFromStart(list, end) ==
  LET stop == IF end < 0
              THEN (IF Len(list) + end < 0 THEN 0 ELSE Len(list) + end)
              ELSE (IF end > Len(list) THEN Len(list) ELSE end)
  IN SubSeq(list, 1, stop)

findBestMatches(ayurvedaCode, icd11Codes_, maxResults) ==
  LET collected == CollectMatches(ayurvedaCode, icd11Codes_, 1)
  IN SliceFromStart(SortMatches(collected, Len(collected)), maxResults)

(***************************************************************************)
(* Table concept_mappings                                                  *)
(***************************************************************************)
Null == "<NULL>"

NoValue == [none |-> TRUE]

\* the rows seedInitialData inserts: manual mappings with column defaults
SeedRows ==
  {[id |-> 1, namaste_code |-> "A", icd11_code |-> "X",
    equivalence |-> "equivalent", confidence |-> 800,
    mapping_type |-> "manual", similarity_score |-> 0,
    mapping_details |-> Null, created_by |-> Null, created_at |-> 0]}

SamePair(row, namaste_code, icd11_code) ==
  row.namaste_code = namaste_code /\ row.icd11_code = icd11_code

\* JSON.stringify of the details object
MappingDetails(mapping) ==
  [similarity_details |-> mapping.similarity_details,
   ayurveda_text |-> mapping.ayurveda_text,
   icd11_text |-> mapping.icd11_text]

\* a row that leaves the score columns at their defaults
MappingRow_DefaultScores(mapping, id, timestamp) ==
  [id |-> id,
   namaste_code |-> mapping.ayurveda_code,
   icd11_code |-> mapping.icd11_code,
   equivalence |-> "equivalent",
   confidence |-> 1000,
   mapping_type |-> "automatic",
   similarity_score |-> 0,
   mapping_details |-> MappingDetails(mapping),
   created_by |-> Null,
   created_at |-> timestamp]

\* the row the INSERT of saveMappingToDatabase describes
MappingRow(mapping, id, timestamp) ==
  [id |-> id,
   namaste_code |-> mapping.ayurveda_code,
   icd11_code |-> mapping.icd11_code,
   equivalence |-> "equivalent",
   confidence |-> mapping.similarity_score,
   mapping_type |-> "automatic",
   similarity_score |-> mapping.similarity_score,
   mapping_details |-> MappingDetails(mapping),
   created_by |-> Null,
   created_at |-> timestamp]

\* INSERT OR IGNORE that overwrites the row of the same pair
InsertOrIgnore_Replaces(table, seq, row) ==
  [table |-> {r \in table :
                ~SamePair(r, row.namaste_code, row.icd11_code)} \cup {row},
   seq |-> row.id, inserted |-> TRUE]

\* INSERT OR IGNORE: a row of the same pair makes the statement a no-op
InsertOrIgnore(table, seq, row) ==
  IF \E r \in table : SamePair(r, row.namaste_code, row.icd11_code)
  THEN [table |-> table, seq |-> seq, inserted |-> FALSE]
  ELSE [table |-> table \cup {row}, seq |-> row.id, inserted |-> TRUE]

\* INSERT OR REPLACE on a table without its UNIQUE constraint
InsertOrReplace_NoDelete(table, seq, row) ==
  [table |-> table \cup {row}, seq |-> row.id, inserted |-> TRUE]

\* INSERT OR REPLACE as an update in place: the row of the pair keeps its
\* id, created_by and created_at
InsertOrReplace_InPlace(table, seq, row) ==
  IF \E r \in table : SamePair(r, row.namaste_code, row.icd11_code)
  THEN [table |-> {IF SamePair(r, row.namaste_code, row.icd11_code)
                   THEN [row EXCEPT !.id = r.id,
                                    !.created_by = r.created_by,
                                    !.created_at = r.created_at]
                   ELSE r : r \in table},
        seq |-> seq, inserted |-> TRUE]
  ELSE [table |-> table \cup {row}, seq |-> row.id, inserted |-> TRUE]

\* INSERT OR REPLACE: the rows of the same pair are deleted, then the row
\* is inserted
InsertOrReplace(table, seq, row) ==
  [table |-> {r \in table :
                ~SamePair(r, row.namaste_code, row.icd11_code)} \cup {row},
   seq |-> row.id, inserted |-> TRUE]

\* saveMappingToDatabase with the two statements swapped
saveMappingToDatabase_Swapped(table, seq, timestamp, mapping, overwriteExisting) ==
  LET row == MappingRow(mapping, seq + 1, timestamp)
  IN IF overwriteExisting
     THEN InsertOrIgnore(table, seq, row)
     ELSE InsertOrReplace(table, seq, row)

\* saveMappingToDatabase that always uses INSERT OR REPLACE
saveMappingToDatabase_AlwaysReplace(table, seq, timestamp, mapping, overwriteExisting) ==
  InsertOrReplace(table, seq, MappingRow(mapping, seq + 1, timestamp))

\* the statement of saveMappingToDatabase, when it succeeds
saveMappingToDatabase(table, seq, timestamp, mapping, overwriteExisting) ==
  LET row == MappingRow(mapping, seq + 1, timestamp)
  IN IF overwriteExisting
     THEN InsertOrReplace(table, seq, row)
     ELSE InsertOrIgnore(table, seq, row)

(***************************************************************************)
(* generateMappings                                                        *)
(***************************************************************************)
DefaultMaxMatchesPerCode == 3

OptionValues ==
  [maxMatchesPerCode : {1, DefaultMaxMatchesPerCode},
   saveToDatabase : BOOLEAN,
   overwriteExisting : BOOLEAN]

FilterConfidence(list, level) ==
  LET HasLevel(mp) == mp.confidence = level
  IN SelectSeq(list, HasLevel)

\* generateMappings grouping the medium tier by score instead of by label
GenerateResult_MediumByScore(all) ==
  LET IsHigh(mp) == mp.confidence = "high"
      IsMedium(mp) == mp.similarity_score > similarityThreshold
      highConfidence == SelectSeq(all, IsHigh)
      mediumConfidence == SelectSeq(all, IsMedium)
  IN [all |-> all,
      high |-> highConfidence,
      medium |-> mediumConfidence,
      stats |-> [total |-> Len(all),
                 highConfidence |-> Len(highConfidence),
                 mediumConfidence |-> Len(mediumConfidence)]]

\* the value generateMappings returns
GenerateResult(all) ==
  LET highConfidence == FilterConfidence(all, "high")
      mediumConfidence == FilterConfidence(all, "medium")
  IN [all |-> all,
      high |-> highConfidence,
      medium |-> mediumConfidence,
      stats |-> [total |-> Len(all),
                 highConfidence |-> Len(highConfidence),
                 mediumConfidence |-> Len(mediumConfidence)]]

\* the periodic pause of the source loop
PauseDue(k) == k % 10 = 0 /\ k > 0

\* end of one iteration of the source loop (k is the loop index)
EndIteration(k) ==
  IF PauseDue(k)
  THEN pc' = "pause" /\ i' = k
  ELSE pc' = "loop" /\ i' = k + 1

\* the invocations of the two requests that overlap
Invocations == {1, 2}

\* the locals of a generateMappings invocation that has not been called
IdleInvocation ==
  [pc |-> "idle", ayurvedaCodes |-> <<>>, icd11Codes |-> <<>>,
   options |-> [maxMatchesPerCode |-> DefaultMaxMatchesPerCode,
                saveToDatabase |-> TRUE,
                overwriteExisting |-> FALSE],
   i |-> 0, matches |-> <<>>, m |-> 0, allMappings |-> <<>>,
   result |-> NoValue]

InitWith(tables) ==
  /\ fuzzball \in tables
  /\ concept_mappings = SeedRows
  /\ sqlite_sequence = 1
  /\ now = 0
  /\ pc = "idle"
  /\ ayurvedaCodes = <<>>
  /\ icd11Codes = <<>>
  /\ options = [maxMatchesPerCode |-> DefaultMaxMatchesPerCode,
                saveToDatabase |-> TRUE,
                overwriteExisting |-> FALSE]
  /\ i = 0
  /\ matches = <<>>
  /\ m = 0
  /\ allMappings = <<>>
  /\ result = NoValue
  /\ saveCalls = 0
  /\ pending = <<>>
  /\ writeLog = <<>>
  /\ errorLog = <<>>
  /\ before = SeedRows
  /\ prev = NoValue
  /\ runs = 0
  /\ found = NoValue
  /\ scored = NoValue
  /\ calls = [c \in Invocations |-> IdleInvocation]
  /\ request = NoValue
  /\ http = NoValue
  /\ immediates = <<>>
  /\ audit_events = {}
  /\ fhir_resources = {}
  /\ served = NoValue

Init == InitWith(GenTables)

\* a call of generateMappings, up to its first await
GenerateMappings(sources, targets, opts) ==
  /\ pc \in {"idle", "done", "failed"}
  /\ runs < MaxRuns
  /\ runs' = runs + 1
  /\ before' = concept_mappings
  /\ prev' = IF pc = "idle" THEN NoValue
             ELSE [outcome |-> pc,
                   saveToDatabase |-> options.saveToDatabase,
                   overwriteExisting |-> options.overwriteExisting,
                   sameArguments |-> /\ sources = ayurvedaCodes
                                     /\ targets = icd11Codes
                                     /\ opts = options]
  /\ ayurvedaCodes' = sources
  /\ icd11Codes' = targets
  /\ options' = opts
  /\ allMappings' = <<>>
  /\ i' = 0
  /\ matches' = <<>>
  /\ m' = 0
  /\ result' = NoValue
  /\ saveCalls' = 0
  /\ pending' = <<>>
  /\ writeLog' = <<>>
  /\ errorLog' = <<>>
  /\ pc' = "loop"
  /\ UNCHANGED <<fuzzball, serverVars, tableVars, found, otherVars>>

\* an iteration that calls saveMappingToDatabase once per source, also
\* when the source has no match
ProcessSource_SavesPerSource ==
  /\ pc = "loop"
  /\ i < Len(ayurvedaCodes)
  /\ LET found_ == findBestMatches(ayurvedaCodes[i + 1], icd11Codes,
                                   options.maxMatchesPerCode)
     IN /\ matches' = found_
        /\ allMappings' = allMappings \o found_
        /\ m' = Len(found_)
        /\ IF options.saveToDatabase
           THEN /\ saveCalls' = saveCalls + 1
                /\ pending' = Append(pending, found_)
                /\ pc' = "save"
                /\ i' = i
           ELSE /\ saveCalls' = saveCalls
                /\ pending' = pending
                /\ EndIteration(i)
  /\ UNCHANGED <<fuzzball, serverVars, tableVars, argVars, result, errorLog,
                 historyVars, found, otherVars, writeLog>>

\* an iteration that saves its matches whatever saveToDatabase says
ProcessSource_IgnoresSaveFlag ==
  /\ pc = "loop"
  /\ i < Len(ayurvedaCodes)
  /\ LET found_ == findBestMatches(ayurvedaCodes[i + 1], icd11Codes,
                                   options.maxMatchesPerCode)
     IN /\ matches' = found_
        /\ IF found_ # <<>>
           THEN /\ allMappings' = Append(allMappings, found_[1])
                /\ m' = 1
                /\ saveCalls' = saveCalls + 1
                /\ pending' = Append(pending, found_[1])
                /\ pc' = "save"
                /\ i' = i
           ELSE /\ allMappings' = allMappings \o found_
                /\ m' = Len(found_)
                /\ saveCalls' = saveCalls
                /\ pending' = pending
                /\ EndIteration(i)
  /\ UNCHANGED <<fuzzball, serverVars, tableVars, argVars, result, errorLog,
                 historyVars, found, otherVars, writeLog>>

\* an iteration that appends all matches of the source before it issues
\* the first write
ProcessSource_AppendsFirst ==
  /\ pc = "loop"
  /\ i < Len(ayurvedaCodes)
  /\ LET found_ == findBestMatches(ayurvedaCodes[i + 1], icd11Codes,
                                   options.maxMatchesPerCode)
     IN /\ matches' = found_
        /\ allMappings' = allMappings \o found_
        /\ IF found_ # <<>> /\ options.saveToDatabase
           THEN /\ m' = 1
                /\ saveCalls' = saveCalls + 1
                /\ pending' = Append(pending, found_[1])
                /\ pc' = "save"
                /\ i' = i
           ELSE /\ m' = Len(found_)
                /\ saveCalls' = saveCalls
                /\ pending' = pending
                /\ EndIteration(i)
  /\ UNCHANGED <<fuzzball, serverVars, tableVars, argVars, result, errorLog,
                 historyVars, found, otherVars, writeLog>>

\* an iteration that issues the writes of all matches of the source without
\* awaiting any of them
ProcessSource_NoAwait ==
  /\ pc = "loop"
  /\ i < Len(ayurvedaCodes)
  /\ LET found_ == findBestMatches(ayurvedaCodes[i + 1], icd11Codes,
                                   options.maxMatchesPerCode)
     IN /\ matches' = found_
        /\ allMappings' = allMappings \o found_
        /\ IF found_ # <<>> /\ options.saveToDatabase
           THEN /\ m' = 1
                /\ saveCalls' = saveCalls + Len(found_)
                /\ pending' = pending \o found_
                /\ pc' = "save"
                /\ i' = i
           ELSE /\ m' = Len(found_)
                /\ saveCalls' = saveCalls
                /\ pending' = pending
                /\ EndIteration(i)
  /\ UNCHANGED <<fuzzball, serverVars, tableVars, argVars, result, errorLog,
                 historyVars, found, otherVars, writeLog>>

\* an iteration that puts the matches of a source before those of the
\* sources processed so far
ProcessSource_Prepends ==
  /\ pc = "loop"
  /\ i < Len(ayurvedaCodes)
  /\ LET found_ == findBestMatches(ayurvedaCodes[i + 1], icd11Codes,
                                   options.maxMatchesPerCode)
     IN /\ matches' = found_
        /\ IF found_ # <<>> /\ options.saveToDatabase
           THEN /\ allMappings' = <<found_[1]>> \o allMappings
                /\ m' = 1
                /\ saveCalls' = saveCalls + 1
                /\ pending' = Append(pending, found_[1])
                /\ pc' = "save"
                /\ i' = i
           ELSE /\ allMappings' = found_ \o allMappings
                /\ m' = Len(found_)
                /\ saveCalls' = saveCalls
                /\ pending' = pending
                /\ EndIteration(i)
  /\ UNCHANGED <<fuzzball, serverVars, tableVars, argVars, result, errorLog,
                 historyVars, found, otherVars, writeLog>>

\* one iteration of the source loop, up to its first saveMappingToDatabase
\* call or, when it makes none, to its end
ProcessSource ==
  /\ pc = "loop"
  /\ i < Len(ayurvedaCodes)
  /\ LET found_ == findBestMatches(ayurvedaCodes[i + 1], icd11Codes,
                                   options.maxMatchesPerCode)
     IN /\ matches' = found_
        /\ IF found_ # <<>> /\ options.saveToDatabase
           THEN /\ allMappings' = Append(allMappings, found_[1])
                /\ m' = 1
                /\ saveCalls' = saveCalls + 1
                /\ pending' = Append(pending, found_[1])
                /\ pc' = "save"
                /\ i' = i
           ELSE /\ allMappings' = allMappings \o found_
                /\ m' = Len(found_)
                /\ saveCalls' = saveCalls
                /\ pending' = pending
                /\ EndIteration(i)
  /\ UNCHANGED <<fuzzball, serverVars, tableVars, argVars, result, errorLog,
                 historyVars, found, otherVars, writeLog>>

\* the statement of the pending saveMappingToDatabase call succeeds
SaveResolved ==
  /\ pc = "save"
  /\ \E timestamp \in now..MaxClock :
       LET written == saveMappingToDatabase(concept_mappings,
                                            sqlite_sequence, timestamp,
                                            matches[m],
                                            options.overwriteExisting)
       IN /\ concept_mappings' = written.table
          /\ sqlite_sequence' = written.seq
          /\ now' = (IF written.inserted THEN timestamp ELSE now)
  /\ writeLog' = Append(writeLog, Head(pending))
  /\ IF m < Len(matches)
     THEN /\ allMappings' = Append(allMappings, matches[m + 1])
          /\ m' = m + 1
          /\ saveCalls' = saveCalls + 1
          /\ pending' = Append(Tail(pending), matches[m + 1])
          /\ UNCHANGED <<pc, i>>
     ELSE /\ EndIteration(i)
          /\ pending' = Tail(pending)
          /\ UNCHANGED <<allMappings, m, saveCalls>>
  /\ UNCHANGED <<fuzzball, serverVars, argVars, matches, result, errorLog,
                 historyVars, found, otherVars>>

\* the statement of the pending saveMappingToDatabase call fails: the error
\* is logged, the promise is rejected and generateMappings rejects with it
SaveRejected ==
  /\ pc = "save"
  /\ errorLog' = Append(errorLog, "Error saving mapping")
  /\ pc' = "failed"
  /\ pending' = Tail(pending)
  /\ UNCHANGED <<fuzzball, serverVars, tableVars, argVars, i, matches, m,
                 allMappings, saveCalls, writeLog, result, historyVars,
                 found, otherVars>>

\* a timer callback that resumes the loop at the source it paused after
TimerFired_NoAdvance ==
  /\ pc = "pause"
  /\ i' = i
  /\ pc' = "loop"
  /\ UNCHANGED <<fuzzball, serverVars, tableVars, argVars, matches, m,
                 allMappings, saveCalls, pending, writeLog, result,
                 errorLog, historyVars, found, otherVars>>

\* the timer of the periodic pause fires
TimerFired ==
  /\ pc = "pause"
  /\ i' = i + 1
  /\ pc' = "loop"
  /\ UNCHANGED <<fuzzball, serverVars, tableVars, argVars, matches, m,
                 allMappings, saveCalls, pending, writeLog, result,
                 errorLog, historyVars, found, otherVars>>

\* the source loop is over: group by confidence and return
Return ==
  /\ pc = "loop"
  /\ i >= Len(ayurvedaCodes)
  /\ result' = GenerateResult(allMappings)
  /\ pc' = "done"
  /\ UNCHANGED <<fuzzball, serverVars, tableVars, argVars, loopVars, errorLog,
                 historyVars, found, otherVars>>

Next ==
  \/ \E w \in Workloads, opts \in OptionValues :
       GenerateMappings(w[1], w[2], opts)
  \/ ProcessSource
  \/ SaveResolved
  \/ SaveRejected
  \/ TimerFired
  \/ Return

Spec == Init /\ [][Next]_vars

(***************************************************************************)
(* findBestMatches called on its own                                       *)
(***************************************************************************)
InitRank == InitWith(FuzzTables)

\* the record of a findBestMatches call: its arguments as they were when
\* it was called and as they are when it has resolved, its resolved value,
\* and the resolved value of a second call with the same arguments
FoundRecord(ayurvedaCode, targets, maxResults, resolved) ==
  [ayurvedaCode |-> ayurvedaCode,
   icd11Codes |-> targets,
   maxResults |-> maxResults,
   matches |-> resolved,
   ayurvedaCodeAfter |-> ayurvedaCode,
   icd11CodesAfter |-> targets,
   again |-> [called |-> FALSE, matches |-> <<>>]]

\* a findBestMatches that stores its best match before it resolves
FindBestMatches_SavesBest(ayurvedaCode, targets, maxResults) ==
  /\ found = NoValue
  /\ LET resolved == findBestMatches(ayurvedaCode, targets, maxResults)
         written == saveMappingToDatabase(concept_mappings, sqlite_sequence,
                                          now, resolved[1], TRUE)
     IN /\ found' = FoundRecord(ayurvedaCode, targets, maxResults, resolved)
        /\ IF resolved # <<>>
           THEN /\ concept_mappings' = written.table
                /\ sqlite_sequence' = written.seq
                /\ now' = now
           ELSE UNCHANGED tableVars
  /\ UNCHANGED <<fuzzball, serverVars, batchVars, otherVars>>

\* one call of findBestMatches and its resolved value
FindBestMatches(ayurvedaCode, targets, maxResults) ==
  /\ found = NoValue
  /\ found' = FoundRecord(ayurvedaCode, targets, maxResults,
                          findBestMatches(ayurvedaCode, targets, maxResults))
  /\ UNCHANGED <<fuzzball, serverVars, tableVars, batchVars, otherVars>>

\* a second call of findBestMatches, with the arguments of the first as
\* the first left them
FindBestMatchesAgain ==
  /\ found # NoValue
  /\ ~found.again.called
  /\ found' = [found EXCEPT
                 !.again = [called |-> TRUE,
                            matches |->
                              findBestMatches(found.ayurvedaCodeAfter,
                                              found.icd11CodesAfter,
                                              found.maxResults)]]
  /\ UNCHANGED <<fuzzball, serverVars, tableVars, batchVars, otherVars>>

NextRank ==
  \/ \E ayurvedaCode \in SourceObjects, targets \in TargetLists,
        maxResults \in MaxResultsValues :
          FindBestMatches(ayurvedaCode, targets, maxResults)
  \/ FindBestMatchesAgain

SpecRank == InitRank /\ [][NextRank]_vars

(***************************************************************************)
(* Two generateMappings invocations on one matcher and one table.  Each    *)
(* has its own arguments and locals; the steps of the two interleave at    *)
(* the awaits: the findBestMatches call and the loop body up to the next   *)
(* await are one step, as in ProcessSource.                                *)
(***************************************************************************)
PairOptionValues ==
  [maxMatchesPerCode : {DefaultMaxMatchesPerCode},
   saveToDatabase : BOOLEAN,
   overwriteExisting : BOOLEAN]

\* allMappings.push on a list that both invocations share
PushMappings_OnMatcher(calls_, c, entries) ==
  [d \in Invocations |->
     [calls_[d] EXCEPT !.allMappings = @ \o entries]]

\* allMappings.push: allMappings is a local of the invocation
PushMappings(calls_, c, entries) ==
  [calls_ EXCEPT ![c].allMappings = @ \o entries]

\* the end of an iteration of invocation c
PairEndIteration(calls_, c) ==
  IF PauseDue(calls_[c].i)
  THEN [calls_ EXCEPT ![c].pc = "pause"]
  ELSE [calls_ EXCEPT ![c].pc = "loop", ![c].i = @ + 1]

\* invocation c is called, up to its first await
PairGenerateMappings(c, sources, targets, opts) ==
  /\ calls[c].pc = "idle"
  /\ calls' = [calls EXCEPT ![c] = [IdleInvocation EXCEPT
                                      !.pc = "loop",
                                      !.ayurvedaCodes = sources,
                                      !.icd11Codes = targets,
                                      !.options = opts]]
  /\ UNCHANGED <<fuzzball, serverVars, tableVars, batchVars, found, scored, request>>

\* one iteration of the source loop of invocation c, up to its first
\* saveMappingToDatabase call or, when it makes none, to its end
PairProcessSource(c) ==
  /\ calls[c].pc = "loop"
  /\ calls[c].i < Len(calls[c].ayurvedaCodes)
  /\ LET st == calls[c]
         found_ == findBestMatches(st.ayurvedaCodes[st.i + 1], st.icd11Codes,
                                   st.options.maxMatchesPerCode)
     IN IF found_ # <<>> /\ st.options.saveToDatabase
        THEN calls' = PushMappings([calls EXCEPT ![c].matches = found_,
                                                 ![c].m = 1,
                                                 ![c].pc = "save"],
                                   c, <<found_[1]>>)
        ELSE calls' = PairEndIteration(
                        PushMappings([calls EXCEPT ![c].matches = found_,
                                                   ![c].m = Len(found_)],
                                     c, found_),
                        c)
  /\ UNCHANGED <<fuzzball, serverVars, tableVars, batchVars, found, scored, request>>

\* the statement of the pending saveMappingToDatabase call of invocation c
\* succeeds
PairSaveResolved(c) ==
  /\ calls[c].pc = "save"
  /\ LET st == calls[c]
     IN /\ \E timestamp \in now..MaxClock :
             LET written == saveMappingToDatabase(
                              concept_mappings, sqlite_sequence, timestamp,
                              st.matches[st.m], st.options.overwriteExisting)
             IN /\ concept_mappings' = written.table
                /\ sqlite_sequence' = written.seq
                /\ now' = (IF written.inserted THEN timestamp ELSE now)
        /\ IF st.m < Len(st.matches)
           THEN calls' = PushMappings([calls EXCEPT ![c].m = @ + 1],
                                      c, <<st.matches[st.m + 1]>>)
           ELSE calls' = PairEndIteration(calls, c)
  /\ UNCHANGED <<fuzzball, serverVars, batchVars, found, scored, request>>

\* the statement of the pending saveMappingToDatabase call of invocation c
\* fails: the invocation rejects
PairSaveRejected(c) ==
  /\ calls[c].pc = "save"
  /\ calls' = [calls EXCEPT ![c].pc = "failed"]
  /\ UNCHANGED <<fuzzball, serverVars, tableVars, batchVars, found, scored, request>>

\* the timer of the periodic pause of invocation c fires
PairTimerFired(c) ==
  /\ calls[c].pc = "pause"
  /\ calls' = [calls EXCEPT ![c].pc = "loop", ![c].i = @ + 1]
  /\ UNCHANGED <<fuzzball, serverVars, tableVars, batchVars, found, scored, request>>

\* the source loop of invocation c is over: it returns
PairReturn(c) ==
  /\ calls[c].pc = "loop"
  /\ calls[c].i >= Len(calls[c].ayurvedaCodes)
  /\ calls' = [calls EXCEPT ![c].pc = "done",
                            ![c].result = GenerateResult(calls[c].allMappings)]
  /\ UNCHANGED <<fuzzball, serverVars, tableVars, batchVars, found, scored, request>>

NextPair ==
  \E c \in Invocations :
    \/ \E w \in Workloads, opts \in PairOptionValues :
         PairGenerateMappings(c, w[1], w[2], opts)
    \/ PairProcessSource(c)
    \/ PairSaveResolved(c)
    \/ PairSaveRejected(c)
    \/ PairTimerFired(c)
    \/ PairReturn(c)

SpecPair == Init /\ [][NextPair]_vars

(***************************************************************************)
(* The normalizer and the text builder called on their own                 *)
(***************************************************************************)
MaxTextLen == 3

TextAlphabet == {"a", "B", "_", " ", "\t", "!"}

\* the strings of at most n characters
TextsUpTo(n) == UNION {[1..k -> TextAlphabet] : k \in 0..n}

\* the values normalizeText is called with
NormalizeInputs ==
  {Undefined, JsNull, Num(0), Num(5)}
    \cup {Str(chars) : chars \in TextsUpTo(MaxTextLen)}

\* a record with a text of its own in every field
FullFields ==
  [display |-> Str(<<"a">>), title |-> Str(<<"b">>),
   name_english |-> Str(<<"c">>), description |-> Str(<<"d">>),
   definition |-> Str(<<"e">>), longDefinition |-> Str(<<"f">>),
   namc_term |-> Str(<<"g">>), short_definition |-> Str(<<"h">>),
   long_definition |-> Str(<<"i">>),
   synonym |-> Arr(<<Str(<<"j">>), Str(<<"k">>)>>),
   inclusion |-> Arr(<<Str(<<"l">>)>>)]

\* what a field of a record may hold instead of its text
FieldValues ==
  {Undefined, JsNull, Str(<<>>), Str(Dash), Str(<<" ">>),
   Str(<<" ", "x", " ">>), Num(0), Num(5), Arr(<<>>),
   Arr(<<Str(Dash), Undefined, Str(<<" ">>), Str(<<"m">>)>>),
   Arr(<<Num(5)>>)}

\* the records createSearchableText is called with: those with any subset
\* of the fields of FullFields, and those with one field of FullFields
\* replaced
BuildInputs ==
  {CodeObject("A", "", [f \in present |-> FullFields[f]]) :
     present \in SUBSET TextFields}
    \cup {CodeObject("A", "", [FullFields EXCEPT ![f] = v]) :
            f \in TextFields, v \in FieldValues}

\* a call of normalizeText and its outcome
NormalizeText(text) ==
  /\ scored = NoValue
  /\ scored' = [op |-> "normalizeText",
                input |-> text,
                threw |-> normalizeTextThrows(text),
                text |-> IF normalizeTextThrows(text) THEN <<>>
                         ELSE normalizeText(text)]
  /\ UNCHANGED <<fuzzball, serverVars, tableVars, batchVars, found, calls, request>>

\* a call of createSearchableText and its outcome
CreateSearchableText(codeObject) ==
  /\ scored = NoValue
  /\ scored' = [op |-> "createSearchableText",
                input |-> codeObject,
                threw |-> createSearchableTextThrows(codeObject),
                text |-> IF createSearchableTextThrows(codeObject) THEN <<>>
                         ELSE createSearchableText(codeObject)]
  /\ UNCHANGED <<fuzzball, serverVars, tableVars, batchVars, found, calls, request>>

NextText ==
  \/ \E text \in NormalizeInputs : NormalizeText(text)
  \/ \E codeObject \in BuildInputs : CreateSearchableText(codeObject)

SpecText == Init /\ [][NextText]_vars

(***************************************************************************)
(* The scorer called on its own                                            *)
(***************************************************************************)
\* the values calculateCompositeSimilarity is called with
ScoreInputs ==
  {Undefined, JsNull, Str(<<>>), Str(<<"!">>), Str(<<" ", "\t">>),
   Str(Dash), Str(<<"A", "b">>), Str(<<"a", "b", "!">>), Str(<<"c">>)}

ScoreTexts == {normalizeText(v) : v \in ScoreInputs} \ {<<>>}

ScoreProfiles ==
  {Profile(0, 0, 0, 0), Profile(0, 100, 30, 70),
   Profile(100, 100, 100, 100)}

ScoreTables == [ScoreTexts \X ScoreTexts -> ScoreProfiles]

InitScore == InitWith(ScoreTables)

\* a call of calculateCompositeSimilarity and its result
CalculateCompositeSimilarity(text1, text2) ==
  /\ scored = NoValue
  /\ scored' = [op |-> "calculateCompositeSimilarity",
                text1 |-> text1,
                text2 |-> text2,
                result |-> calculateCompositeSimilarity(text1, text2)]
  /\ UNCHANGED <<fuzzball, serverVars, tableVars, batchVars, found, calls, request>>

NextScore ==
  \E text1 \in ScoreInputs, text2 \in ScoreInputs :
    CalculateCompositeSimilarity(text1, text2)

SpecScore == InitScore /\ [][NextScore]_vars

(***************************************************************************)
(* Requests to the paths under /admin: the authentication middleware and   *)
(* the route handlers behind it.  jwt.verify is the jsonwebtoken library:  *)
(* it returns the payload of a token it accepts and throws an error whose  *)
(* name says why it rejects one.                                           *)
(***************************************************************************)
\* the payloads of tokens: sub, userId and role, "" when absent
Payloads ==
  {[sub |-> "u1", userId |-> "", role |-> "clinician"],
   [sub |-> "", userId |-> "u2", role |-> ""],
   [sub |-> "", userId |-> "", role |-> "admin"]}

\* a token: what jwt.verify makes of it, and its payload
TokenKinds == {"valid", "expired", "malformed", "not active"}

Tokens == [kind : TokenKinds, payload : Payloads]

\* the Authorization header: absent, or a scheme prefix and a token
NoHeader == [present |-> FALSE, prefix |-> "", token |-> NoValue]

Headers ==
  {NoHeader}
    \cup [present : {TRUE}, prefix : {"Bearer ", "bearer ", "Basic "},
          token : Tokens]

AdminRoutes ==
  {"POST /csv/import", "GET /stats", "POST /mapping", "GET /conceptmaps"}

\* request bodies: csvData, namasteCode and icd11Code, "" when absent
Bodies ==
  {[csvData |-> "", namasteCode |-> "", icd11Code |-> ""],
   [csvData |-> "code,display", namasteCode |-> "", icd11Code |-> ""],
   [csvData |-> "", namasteCode |-> "A", icd11Code |-> "X"],
   [csvData |-> "", namasteCode |-> "B", icd11Code |-> "X"]}

NoUser == [id |-> Null, role |-> Null]

\* jwt.verify
verify(token) ==
  CASE token.kind = "valid" -> [ok |-> TRUE, decoded |-> token.payload]
    [] token.kind = "expired" -> [ok |-> FALSE, name |-> "TokenExpiredError"]
    [] token.kind = "malformed" -> [ok |-> FALSE, name |-> "JsonWebTokenError"]
    [] OTHER -> [ok |-> FALSE, name |-> "NotBeforeError"]

\* authMiddleware: the answer it sends, or next() with req.user set
authMiddleware(header) ==
  IF ~header.present \/ header.prefix # "Bearer "
  THEN [status |-> 401, code |-> "login", next |-> FALSE, user |-> NoUser]
  ELSE LET verified == verify(header.token)
       IN IF verified.ok
          THEN [status |-> 0, code |-> "", next |-> TRUE,
                user |-> [id |-> OrElse(verified.decoded.sub,
                                        verified.decoded.userId),
                          role |-> OrElse(verified.decoded.role, "user")]]
          ELSE IF verified.name = "TokenExpiredError"
          THEN [status |-> 401, code |-> "expired", next |-> FALSE,
                user |-> NoUser]
          ELSE IF verified.name = "JsonWebTokenError"
          THEN [status |-> 401, code |-> "invalid", next |-> FALSE,
                user |-> NoUser]
          ELSE [status |-> 500, code |-> "exception", next |-> FALSE,
                user |-> NoUser]

\* the row the INSERT of addMapping describes
ManualRow(id, timestamp, namasteCode, icd11Code, createdBy) ==
  [id |-> id, namaste_code |-> namasteCode, icd11_code |-> icd11Code,
   equivalence |-> "equivalent", confidence |-> 1000,
   mapping_type |-> "manual", similarity_score |-> 0,
   mapping_details |-> Null, created_by |-> createdBy,
   created_at |-> timestamp]

\* addMapping: codesExist says whether both code tables hold the codes
addMapping(table, seq, timestamp, namasteCode, icd11Code, createdBy, codesExist) ==
  IF ~codesExist
  THEN [table |-> table, seq |-> seq, inserted |-> FALSE, status |-> 500]
  ELSE IF \E r \in table : SamePair(r, namasteCode, icd11Code)
  THEN [table |-> table, seq |-> seq, inserted |-> FALSE, status |-> 400]
  ELSE [table |-> table \cup {ManualRow(seq + 1, timestamp, namasteCode,
                                        icd11Code, createdBy)},
        seq |-> seq + 1, inserted |-> TRUE, status |-> 200]

\* a request to a path under /admin arrives at authMiddleware
AdminRequest(route, header, body) ==
  /\ request = NoValue
  /\ LET answer == authMiddleware(header)
     IN request' = [route |-> route, header |-> header, body |-> body,
                    status |-> answer.status, code |-> answer.code,
                    next |-> answer.next, user |-> answer.user,
                    handler |-> "none"]
  /\ UNCHANGED <<fuzzball, serverVars, tableVars, batchVars, found, scored, calls>>

\* POST /admin/mapping
AdminMapping ==
  /\ request # NoValue
  /\ request.next
  /\ request.handler = "none"
  /\ request.route = "POST /mapping"
  /\ IF request.body.namasteCode = "" \/ request.body.icd11Code = ""
     THEN /\ request' = [request EXCEPT !.handler = request.route,
                                        !.status = 400]
          /\ UNCHANGED tableVars
     ELSE \E codesExist \in BOOLEAN, timestamp \in now..MaxClock :
            LET added == addMapping(concept_mappings, sqlite_sequence,
                                    timestamp, request.body.namasteCode,
                                    request.body.icd11Code,
                                    OrElse(request.user.id, "admin"),
                                    codesExist)
            IN /\ concept_mappings' = added.table
               /\ sqlite_sequence' = added.seq
               /\ now' = (IF added.inserted THEN timestamp ELSE now)
               /\ request' = [request EXCEPT !.handler = request.route,
                                             !.status = added.status]
  /\ UNCHANGED <<fuzzball, serverVars, batchVars, found, scored, calls>>

\* POST /admin/csv/import, GET /admin/stats, GET /admin/conceptmaps
AdminOther ==
  /\ request # NoValue
  /\ request.next
  /\ request.handler = "none"
  /\ request.route # "POST /mapping"
  /\ request' =
       [request EXCEPT
          !.handler = request.route,
          !.status = IF /\ request.route = "POST /csv/import"
                        /\ request.body.csvData = ""
                     THEN 400 ELSE 200]
  /\ UNCHANGED <<fuzzball, serverVars, tableVars, batchVars, found, scored, calls>>

NextAdmin ==
  \/ \E route \in AdminRoutes, header \in Headers, body \in Bodies :
       AdminRequest(route, header, body)
  \/ AdminMapping
  \/ AdminOther

SpecAdmin == Init /\ [][NextAdmin]_vars

(***************************************************************************)
(* One invocation of generateMappings with the options a request body can  *)
(* carry: POST /api/mappings/generate hands maxMatchesPerCode over as it   *)
(* is in the body.                                                         *)
(***************************************************************************)
BodyOptionValues ==
  [maxMatchesPerCode : {-1, 0, 1, 2, DefaultMaxMatchesPerCode},
   saveToDatabase : BOOLEAN,
   overwriteExisting : BOOLEAN]

NextBatch ==
  \/ \E w \in Workloads, opts \in BodyOptionValues :
       runs = 0 /\ GenerateMappings(w[1], w[2], opts)
  \/ ProcessSource
  \/ SaveResolved
  \/ SaveRejected
  \/ TimerFired
  \/ Return

SpecBatch == Init /\ [][NextBatch]_vars

(***************************************************************************)
(* One invocation of generateMappings whose writes all succeed.  The       *)
(* continuation of an async function runs once the promise it awaits has   *)
(* settled; the statement of a write completes and the timer of the pause  *)
(* fires.                                                                  *)
(***************************************************************************)
LiveWorkloads == Workloads \cup {<<Eleven, <<TgtX1>>>>}

NextLive ==
  \/ \E w \in LiveWorkloads, opts \in OptionValues :
       runs = 0 /\ GenerateMappings(w[1], w[2], opts)
  \/ ProcessSource
  \/ SaveResolved
  \/ TimerFired
  \/ Return

\* ProcessSource is enabled exactly when the loop has a source left
MoreSources == pc = "loop" /\ i < Len(ayurvedaCodes)

\* weak fairness of every step of the invocation; that of ProcessSource is
\* written with its enabling condition spelled out
SpecLive ==
  /\ Init
  /\ [][NextLive]_vars
  /\ ([]<>~MoreSources \/ []<><<ProcessSource>>_vars)
  /\ WF_vars(SaveResolved)
  /\ WF_vars(TimerFired)
  /\ WF_vars(Return)

(***************************************************************************)
(* The middleware every request passes and the audit log.  express.json is *)
(* the body parser of the express library: it hands a body that is not     *)
(* JSON to the error handler instead of calling the next middleware.       *)
(***************************************************************************)
MaxRequests == 2

HttpMethods == {"GET", "POST", "PUT", "PATCH", "DELETE", "HEAD"}

\* the body of a request: absent, JSON, or text that does not parse
BodyKinds == {"none", "json", "malformed"}

\* the status codes the route handlers, the 404 handler and the error
\* handler answer with
StatusCodes == {200, 400, 401, 404, 500}

Users == {Null, "u1"}

getAuditAction(method) ==
  CASE method = "GET" -> "read"
    [] method = "POST" -> "create"
    [] method \in {"PUT", "PATCH"} -> "update"
    [] method = "DELETE" -> "delete"
    [] OTHER -> "execute"

\* the auditData object of auditMiddleware when it calls next()
NewAuditData(eventId, method) ==
  [eventId |-> eventId, eventType |-> "rest",
   action |-> getAuditAction(method), outcome |-> "success",
   userId |-> Null, requestMethod |-> method, responseStatus |-> Null]

\* the res.json auditMiddleware installs: what it makes of auditData
PatchedJson(auditData, statusCode, user) ==
  [auditData EXCEPT
     !.responseStatus = statusCode,
     !.outcome = IF statusCode >= 400 THEN "failure" ELSE "success",
     !.userId = user]

\* the status the error handler answers with for an error of this name
errorHandler(name) ==
  CASE name = "ValidationError" -> 400
    [] name = "UnauthorizedError" -> 401
    [] name = "ForbiddenError" -> 403
    [] name = "NotFoundError" -> 404
    [] OTHER -> 500

\* the row logAuditEvent inserts
AuditRow(auditData) ==
  [event_id |-> auditData.eventId, event_type |-> auditData.eventType,
   action |-> auditData.action, outcome |-> auditData.outcome,
   user_id |-> auditData.userId,
   request_method |-> auditData.requestMethod,
   response_status |-> auditData.responseStatus]

\* a request arrives and passes the middleware in the order of their
\* registration: the body parser, then auditMiddleware
HttpRequest(method, body) ==
  /\ IF http = NoValue THEN TRUE
     ELSE http.stage = "answered" /\ http.id < MaxRequests
  /\ LET id == IF http = NoValue THEN 1 ELSE http.id + 1
     IN http' =
          IF body = "malformed"
          THEN [id |-> id, method |-> method, body |-> body,
                stage |-> "answered", patched |-> FALSE,
                auditData |-> NoValue,
                statusCode |-> errorHandler("SyntaxError")]
          ELSE [id |-> id, method |-> method, body |-> body,
                stage |-> "routing", patched |-> TRUE,
                auditData |-> NewAuditData(id, method),
                statusCode |-> 200]
  /\ UNCHANGED <<fuzzball, tableVars, batchVars, found, otherVars,
                 immediates, audit_events, cacheVars>>

\* a route handler, the 404 handler or the error handler answers with
\* res.status(statusCode).json(body)
HttpAnswer(statusCode, user) ==
  /\ http # NoValue
  /\ http.stage = "routing"
  /\ LET auditData == PatchedJson(http.auditData, statusCode, user)
     IN /\ http' = [http EXCEPT !.stage = "answered",
                                !.statusCode = statusCode,
                                !.auditData = auditData]
        /\ immediates' = Append(immediates, auditData)
  /\ UNCHANGED <<fuzzball, tableVars, batchVars, found, otherVars,
                 audit_events, cacheVars>>

\* the oldest setImmediate callback runs logAuditEvent; its INSERT
\* succeeds, or fails and the error is written to the console
LogAuditEvent(inserted) ==
  /\ immediates # <<>>
  /\ immediates' = Tail(immediates)
  /\ IF inserted
     THEN /\ audit_events' = audit_events \cup {AuditRow(Head(immediates))}
          /\ UNCHANGED errorLog
     ELSE /\ errorLog' = Append(errorLog, "Failed to log audit event")
          /\ UNCHANGED audit_events
  /\ UNCHANGED <<fuzzball, tableVars, pc, argVars, loopVars, result,
                 historyVars, found, otherVars, http, cacheVars>>

NextServer ==
  \/ \E method \in HttpMethods, body \in BodyKinds :
       HttpRequest(method, body)
  \/ \E statusCode \in StatusCodes, user \in Users :
       HttpAnswer(statusCode, user)
  \/ \E inserted \in BOOLEAN : LogAuditEvent(inserted)

InitServer ==
  InitWith({CHOOSE table \in GenTables : TRUE})

SpecServer == InitServer /\ [][NextServer]_vars

(***************************************************************************)
(* The ConceptMap service: table concept_mappings, the code tables its     *)
(* queries join, and the copy of the ConceptMap it keeps in table          *)
(* fhir_resources.                                                         *)
(***************************************************************************)
MaxId == 3

\* the codes in tables namaste_codes and icd11_codes
namaste_codes == {"A"}

icd11_codes == {"X", "Y"}

\* the text by which addMapping recognizes a failed UNIQUE constraint
UniqueFailed == "UNIQUE constraint failed"

\* the codes addMapping is called with
NamasteCodeValues == {"A", "B", UniqueFailed}

Icd11CodeValues == {"X", "Y", "Z"}

\* the group elements createNAMASTEToICD11ConceptMap builds from the rows
\* its query joins with both code tables, and stores in fhir_resources
createNAMASTEToICD11ConceptMap(table) ==
  {[code |-> r.namaste_code, target |-> r.icd11_code,
    equivalence |-> r.equivalence, confidence |-> r.confidence] :
     r \in {r0 \in table : /\ r0.namaste_code \in namaste_codes
                           /\ r0.icd11_code \in icd11_codes}}

\* the row INSERT OR REPLACE INTO fhir_resources leaves for a ConceptMap
ConceptMapRow(conceptMap) ==
  [resource_id |-> "namaste-to-icd11", resource_type |-> "ConceptMap",
   content |-> conceptMap]

\* getConceptMap('namaste-to-icd11'): what it returns, and the rows of
\* fhir_resources after it
getConceptMap(rows, table) ==
  IF rows # {}
  THEN [conceptMap |-> (CHOOSE row \in rows : TRUE).content, rows |-> rows]
  ELSE [conceptMap |-> createNAMASTEToICD11ConceptMap(table),
        rows |-> {ConceptMapRow(createNAMASTEToICD11ConceptMap(table))}]

\* how a call of addMapping ends: the message of the error its try block
\* raises decides between returning {success: false} and throwing
addMappingEnds(table, namasteCode, icd11Code, regenerated) ==
  LET message ==
        IF namasteCode \notin namaste_codes
        THEN <<"NAMASTE code ", namasteCode, " not found">>
        ELSE IF icd11Code \notin icd11_codes
        THEN <<"ICD-11 code ", icd11Code, " not found">>
        ELSE IF \E r \in table : SamePair(r, namasteCode, icd11Code)
        THEN <<"SQLITE_CONSTRAINT: ", UniqueFailed>>
        ELSE IF ~regenerated
        THEN <<"SQLITE_BUSY: database is locked">>
        ELSE <<>>
  IN IF message = <<>> THEN "added"
     ELSE IF \E k \in DOMAIN message : message[k] = UniqueFailed
     THEN "exists"
     ELSE "thrown"

\* FHIRConceptMapService.addMapping; regenerated says whether the
\* statements of createNAMASTEToICD11ConceptMap succeed
AddMapping(namasteCode, icd11Code, createdBy, regenerated) ==
  /\ sqlite_sequence < MaxId
  /\ LET added == addMapping(concept_mappings, sqlite_sequence, now,
                             namasteCode, icd11Code, createdBy,
                             /\ namasteCode \in namaste_codes
                             /\ icd11Code \in icd11_codes)
     IN /\ concept_mappings' = added.table
        /\ sqlite_sequence' = added.seq
        /\ fhir_resources' =
             IF added.inserted /\ regenerated
             THEN {ConceptMapRow(
                     createNAMASTEToICD11ConceptMap(added.table))}
             ELSE fhir_resources
        /\ served' = [op |-> "addMapping", namasteCode |-> namasteCode,
                      icd11Code |-> icd11Code,
                      outcome |-> addMappingEnds(concept_mappings,
                                                 namasteCode, icd11Code,
                                                 regenerated)]
  /\ UNCHANGED <<fuzzball, now, batchVars, found, otherVars, http,
                 immediates, audit_events>>

\* a write of generateMappings
SaveMapping(mapping, overwriteExisting) ==
  /\ sqlite_sequence < MaxId
  /\ LET saved == saveMappingToDatabase(concept_mappings, sqlite_sequence,
                                        now, mapping, overwriteExisting)
     IN /\ concept_mappings' = saved.table
        /\ sqlite_sequence' = saved.seq
  /\ served' = [op |-> "saveMappingToDatabase",
                namasteCode |-> mapping.ayurveda_code,
                icd11Code |-> mapping.icd11_code,
                outcome |-> IF overwriteExisting THEN "replace" ELSE "ignore"]
  /\ UNCHANGED <<fuzzball, now, batchVars, found, otherVars, http,
                 immediates, audit_events, fhir_resources>>

\* PUT /api/mappings/:mappingId: its UPDATE sets column updated_at, which
\* table concept_mappings does not have, so the statement fails
PutMapping(mappingId) ==
  /\ served' = [op |-> "PUT", mappingId |-> mappingId, outcome |-> 500]
  /\ UNCHANGED <<fuzzball, tableVars, batchVars, found, otherVars, http,
                 immediates, audit_events, fhir_resources>>

\* DELETE /api/mappings/:mappingId
DeleteMapping(mappingId) ==
  /\ concept_mappings' = {r \in concept_mappings : r.id # mappingId}
  /\ served' = [op |-> "DELETE", mappingId |-> mappingId,
                outcome |-> IF \E r \in concept_mappings : r.id = mappingId
                            THEN 200 ELSE 404]
  /\ UNCHANGED <<fuzzball, sqlite_sequence, now, batchVars, found,
                 otherVars, http, immediates, audit_events, fhir_resources>>

\* GET /fhir/ConceptMap/namaste-to-icd11
GetConceptMap ==
  /\ LET got == getConceptMap(fhir_resources, concept_mappings)
     IN /\ fhir_resources' = got.rows
        /\ served' = [op |-> "getConceptMap", conceptMap |-> got.conceptMap]
  /\ UNCHANGED <<fuzzball, tableVars, batchVars, found, otherVars, http,
                 immediates, audit_events>>

\* the mappings generateMappings produces for two sources and three
\* targets of the model
GeneratedMappings ==
  LET all == findBestMatches(SrcA1, <<TgtX1, TgtY, TgtZ>>,
                             DefaultMaxMatchesPerCode)
               \o findBestMatches(SrcB, <<TgtX1, TgtY, TgtZ>>,
                                  DefaultMaxMatchesPerCode)
  IN {all[k] : k \in DOMAIN all}

NextMap ==
  \/ \E namasteCode \in NamasteCodeValues, icd11Code \in Icd11CodeValues,
        createdBy \in {"admin", "u1"}, regenerated \in BOOLEAN :
       AddMapping(namasteCode, icd11Code, createdBy, regenerated)
  \/ \E mapping \in GeneratedMappings, overwriteExisting \in BOOLEAN :
       SaveMapping(mapping, overwriteExisting)
  \/ \E mappingId \in 1..MaxId : PutMapping(mappingId)
  \/ \E mappingId \in 1..MaxId : DeleteMapping(mappingId)
  \/ GetConceptMap

SpecMap == InitServer /\ [][NextMap]_vars

(***************************************************************************)
(* Properties                                                              *)
(***************************************************************************)
Entries(list) == {list[k] : k \in DOMAIN list}

\* the position of the last mapping of a pair in a list of mappings
LastOfPair(list, mp) ==
  CHOOSE k \in DOMAIN list :
    /\ list[k].ayurveda_code = mp.ayurveda_code
    /\ list[k].icd11_code = mp.icd11_code
    /\ \A j \in DOMAIN list :
         (list[j].ayurveda_code = mp.ayurveda_code
            /\ list[j].icd11_code = mp.icd11_code) => j <= k

RowsOfPair(table, mp) ==
  {r \in table : SamePair(r, mp.ayurveda_code, mp.icd11_code)}

\* C1: in every reachable state the table holds at most one row per
\* (namaste_code, icd11_code) pair.
C1_OneRowPerPair ==
  \A r1, r2 \in concept_mappings :
    SamePair(r1, r2.namaste_code, r2.icd11_code) => r1 = r2

\* an invocation has returned after writing, with overwriteExisting, a pair
\* that was in the table when it was called
C1_Witness ==
  /\ pc = "done"
  /\ options.saveToDatabase
  /\ options.overwriteExisting
  /\ \E mp \in Entries(allMappings) : RowsOfPair(before, mp) # {}
  /\ Cardinality(concept_mappings) >= 3

\* C2: a step in which a persistence failure is logged leaves the
\* invocation running: it goes on to the next mapping or the next source,
\* it is not rejected.
C2_FailureDoesNotAbort ==
  [][(pc = "save" /\ errorLog' # errorLog)
       => pc' \in {"save", "loop", "pause"}]_vars

\* C3: with overwriteExisting false, the write of a pair that is in the
\* table changes no row, adds no row and consumes no id.
C3_IgnoreIsNoOp ==
  [][(/\ pc = "save"
      /\ ~options.overwriteExisting
      /\ RowsOfPair(concept_mappings, matches[m]) # {})
       => /\ concept_mappings' = concept_mappings
          /\ sqlite_sequence' = sqlite_sequence]_vars

\* an invocation without overwriteExisting has returned after generating
\* the pair of a manual row, which is still in the table
C3_Witness ==
  /\ pc = "done"
  /\ options.saveToDatabase
  /\ ~options.overwriteExisting
  /\ \E mp \in Entries(allMappings) :
       \E r \in RowsOfPair(concept_mappings, mp) :
         /\ r.mapping_type = "manual"
         /\ r.confidence # mp.similarity_score

\* C4: when generateMappings has returned twice in a row on the same
\* sources, targets and options, with overwriteExisting false, the table
\* after the second run is the table after the first.
C4_RerunIdempotent ==
  (/\ pc = "done"
   /\ prev # NoValue
   /\ prev.outcome = "done"
   /\ prev.sameArguments
   /\ ~options.overwriteExisting)
    => /\ concept_mappings = before
       /\ C1_OneRowPerPair

\* the second of two such runs has returned, the first having inserted rows
C4_Witness ==
  /\ pc = "done"
  /\ prev # NoValue
  /\ prev.outcome = "done"
  /\ prev.sameArguments
  /\ options.saveToDatabase
  /\ ~options.overwriteExisting
  /\ saveCalls >= 2
  /\ \E r \in concept_mappings : r.mapping_type = "automatic"

\* the second of two runs with saveToDatabase and overwriteExisting has
\* returned
SecondOverwriteDone ==
  /\ pc = "done"
  /\ options.saveToDatabase
  /\ options.overwriteExisting
  /\ prev # NoValue
  /\ prev.outcome = "done"
  /\ prev.saveToDatabase
  /\ prev.overwriteExisting

\* C5, as amended: after the second of two runs with overwriteExisting,
\* each generated pair has exactly one row, and the row carries the score
\* of the last mapping the run generated for the pair.
C5_OverwriteKeepsLatestScore ==
  SecondOverwriteDone
    => \A mp \in Entries(allMappings) :
         /\ Cardinality(RowsOfPair(concept_mappings, mp)) = 1
         /\ \A r \in RowsOfPair(concept_mappings, mp) :
              r.similarity_score =
                allMappings[LastOfPair(allMappings, mp)].similarity_score

\* the second run has returned with a score, for a pair the first run had
\* written, that differs from the score the first run stored
C5_Witness ==
  /\ SecondOverwriteDone
  /\ \E mp \in Entries(allMappings) :
       \E r \in RowsOfPair(before, mp) :
         /\ r.mapping_type = "automatic"
         /\ r.similarity_score # mp.similarity_score

\* C5, as claimed: moreover the row of a pair that was in the table before
\* the second run is the same record, that is, it keeps its id.
C5_Original ==
  SecondOverwriteDone
    => \A mp \in Entries(allMappings) :
         /\ Cardinality(RowsOfPair(concept_mappings, mp)) = 1
         /\ \A r \in RowsOfPair(concept_mappings, mp) :
              /\ r.similarity_score =
                   allMappings[LastOfPair(allMappings, mp)].similarity_score
              /\ \A r0 \in RowsOfPair(before, mp) : r.id = r0.id

\* the matches at or above the threshold, before sorting and truncation
Survivors(call) == CollectMatches(call.ayurvedaCode, call.icd11Codes, 1)

AboveThreshold(list) ==
  \A k \in DOMAIN list : list[k].similarity_score >= similarityThreshold

\* C6, as amended: for every maxResults >= 0 findBestMatches returns at
\* most maxResults entries, and for every maxResults it returns no entry
\* whose composite score is below the similarity threshold.
C6_AtMostMaxResultsAboveThreshold ==
  found # NoValue
    => /\ found.maxResults >= 0 => Len(found.matches) <= found.maxResults
       /\ AboveThreshold(found.matches)

\* three targets, one below the threshold and two at or above it, of which
\* maxResults = 1 keeps one
C6_Witness ==
  /\ found # NoValue
  /\ found.maxResults = 1
  /\ Len(found.icd11Codes) = 3
  /\ Len(Survivors(found)) = 2
  /\ Len(found.matches) = 1

\* C6, as claimed: for every maxResults, at most maxResults entries.
C6_Original ==
  found # NoValue
    => /\ Len(found.matches) <= found.maxResults
       /\ AboveThreshold(found.matches)

\* C7: the list findBestMatches returns is sorted non-increasing by
\* composite score.
C7_SortedNonIncreasing ==
  found # NoValue
    => \A k \in 1..(Len(found.matches) - 1) :
         found.matches[k].similarity_score
           >= found.matches[k + 1].similarity_score

\* the best match is a target that comes later in the target list than the
\* second best, with a strictly greater score
C7_Witness ==
  /\ found # NoValue
  /\ Len(found.matches) >= 2
  /\ found.matches[1].similarity_score > found.matches[2].similarity_score
  /\ Survivors(found)[1] = found.matches[2]

\* the confidence tier of an entry is the one its score determines
TierOfScore(e) ==
  /\ e.confidence \in {"high", "medium"}
  /\ e.confidence = "high" <=> e.similarity_score >= highConfidenceThreshold

\* C8: every entry findBestMatches returned to generateMappings, every
\* entry accumulated and every entry of the returned all has confidence
\* "high" exactly when its score is >= 0.8 and "medium" otherwise; "low"
\* does not appear.
C8_TierFromScore ==
  /\ \A e \in Entries(matches) : TierOfScore(e)
  /\ \A e \in Entries(allMappings) : TierOfScore(e)
  /\ result # NoValue
       => \A e \in Entries(result.all)
                     \cup Entries(result.high)
                     \cup Entries(result.medium) : TierOfScore(e)

\* a result with an entry at exactly 0.8 (high) and one at exactly 0.6
\* (medium)
C8_Witness ==
  /\ pc = "done"
  /\ \E e \in Entries(result.all) :
       e.similarity_score = highConfidenceThreshold /\ e.confidence = "high"
  /\ \E e \in Entries(result.all) :
       e.similarity_score = similarityThreshold /\ e.confidence = "medium"

\* all is an interleaving of high and medium that keeps the order of both
\* and puts each entry in the list of its tier
RECURSIVE Partitions(_, _, _)
Partitions(all, high, medium) ==
  IF all = <<>> THEN high = <<>> /\ medium = <<>>
  ELSE \/ /\ Head(all).confidence = "high"
          /\ high # <<>>
          /\ Head(high) = Head(all)
          /\ Partitions(Tail(all), Tail(high), medium)
       \/ /\ Head(all).confidence = "medium"
          /\ medium # <<>>
          /\ Head(medium) = Head(all)
          /\ Partitions(Tail(all), high, Tail(medium))

\* C9: in the returned value, high and medium partition all by tier in the
\* order of all, and stats holds the three lengths, so total = high +
\* medium.
C9_ResultPartition ==
  pc = "done"
    => /\ Partitions(result.all, result.high, result.medium)
       /\ result.all = allMappings
       /\ result.stats.total = Len(result.all)
       /\ result.stats.highConfidence = Len(result.high)
       /\ result.stats.mediumConfidence = Len(result.medium)
       /\ result.stats.total
            = result.stats.highConfidence + result.stats.mediumConfidence

\* a result whose all alternates between the tiers
C9_Witness ==
  /\ pc = "done"
  /\ Len(result.all) = 4
  /\ result.all[1].confidence = "high"
  /\ result.all[2].confidence = "medium"
  /\ result.all[3].confidence = "high"
  /\ result.stats.highConfidence = 2
  /\ result.stats.mediumConfidence = 2

\* C10: an invocation with an empty target list issues no
\* saveMappingToDatabase call, leaves the table as it was, and returns empty
\* all, high and medium with stats.total = 0.
C10_EmptyTargets ==
  (pc # "idle" /\ icd11Codes = <<>>)
    => /\ saveCalls = 0
       /\ pc \notin {"save", "failed"}
       /\ concept_mappings = before
       /\ pc = "done"
            => /\ result.stats.total = 0
               /\ result.all = <<>>
               /\ result.high = <<>>
               /\ result.medium = <<>>

\* eleven sources and no target, with saveToDatabase and overwriteExisting
C10_Witness ==
  /\ pc = "done"
  /\ icd11Codes = <<>>
  /\ Len(ayurvedaCodes) = 11
  /\ options.saveToDatabase
  /\ options.overwriteExisting

\* the matches of the sources from position k on, source after source
RECURSIVE MatchesOfAll(_, _, _, _)
MatchesOfAll(sources, targets, maxMatchesPerCode, k) ==
  IF k > Len(sources) THEN <<>>
  ELSE findBestMatches(sources[k], targets, maxMatchesPerCode)
         \o MatchesOfAll(sources, targets, maxMatchesPerCode, k + 1)

\* the value an invocation returns when every write it issues succeeds
ReturnedWhenSaved(sources, targets, maxMatchesPerCode) ==
  GenerateResult(MatchesOfAll(sources, targets, maxMatchesPerCode, 1))

\* C11: an invocation with saveToDatabase false issues no
\* saveMappingToDatabase call and leaves the table as it was when it was
\* called; the value it returns is the value an invocation with
\* saveToDatabase true returns on the same sources, targets and
\* maxMatchesPerCode when all its writes succeed.
C11_NoSaveNoWrite ==
  /\ (pc # "idle" /\ ~options.saveToDatabase)
       => /\ saveCalls = 0
          /\ pc \notin {"save", "failed"}
          /\ concept_mappings = before
  /\ pc = "done"
       => result = ReturnedWhenSaved(ayurvedaCodes, icd11Codes,
                                     options.maxMatchesPerCode)

\* an invocation with saveToDatabase false has returned three mappings, of
\* pairs the table does not hold, after an invocation with saveToDatabase
\* true
C11_Witness ==
  /\ pc = "done"
  /\ ~options.saveToDatabase
  /\ result.stats.total >= 3
  /\ \E mp \in Entries(result.all) : RowsOfPair(concept_mappings, mp) = {}
  /\ prev # NoValue
  /\ prev.saveToDatabase

C13_InterleavedInvocations ==
  /\ C1_OneRowPerPair
  /\ \A c \in Invocations :
       calls[c].pc = "done"
         => calls[c].result
              = ReturnedWhenSaved(calls[c].ayurvedaCodes,
                                  calls[c].icd11Codes,
                                  calls[c].options.maxMatchesPerCode)

\* both invocations have returned after writing with overwriteExisting; the
\* row of a pair both generated carries the score of the one and has a
\* smaller id than a row the other wrote after it
C13_Witness ==
  /\ \A c \in Invocations :
       /\ calls[c].pc = "done"
       /\ calls[c].options.saveToDatabase
       /\ calls[c].options.overwriteExisting
  /\ calls[1].result.stats.total = 4
  /\ calls[2].result.stats.total = 1
  /\ \E r1, r2 \in concept_mappings :
       /\ SamePair(r1, calls[2].result.all[1].ayurveda_code,
                   calls[2].result.all[1].icd11_code)
       /\ r1.similarity_score = calls[2].result.all[1].similarity_score
       /\ r1.similarity_score # calls[1].result.all[1].similarity_score
       /\ r2.id > r1.id

\* the maximal runs of word characters of a string, in order
RECURSIVE WordRuns(_, _)
WordRuns(chars, run) ==
  IF chars = <<>> THEN (IF run = <<>> THEN <<>> ELSE <<run>>)
  ELSE IF Head(chars) \in WordChars
       THEN WordRuns(Tail(chars), Append(run, Head(chars)))
       ELSE (IF run = <<>> THEN <<>> ELSE <<run>>)
              \o WordRuns(Tail(chars), <<>>)

\* null, undefined, the empty string, or a string without a word character
EmptyWhenNormalized(v) ==
  \/ v \in {Undefined, JsNull}
  \/ v.t = "string" /\ WordRuns(v.s, <<>>) = <<>>

ScoreCalled ==
  scored # NoValue /\ scored.op = "calculateCompositeSimilarity"

\* C14: when either argument of the scorer is null, undefined, the empty
\* string or a string of punctuation and whitespace only, the composite
\* score and the four sub-scores are 0.
C14_EmptyTextScoresZero ==
  (/\ ScoreCalled
   /\ EmptyWhenNormalized(scored.text1) \/ EmptyWhenNormalized(scored.text2))
    => /\ scored.result.composite = 0
       /\ \A method \in Methods : scored.result.individual[method] = 0

\* the scorer was called with a string of punctuation only as its second
\* argument and a text as its first, and with a library that scores every
\* pair of texts 100
C14_Witness ==
  /\ ScoreCalled
  /\ scored.text1 = Str(<<"c">>)
  /\ scored.text2 = Str(<<"!">>)
  /\ \A pair \in DOMAIN fuzzball : fuzzball[pair].ratio = 100
  /\ scored.result.composite = 0

BuildCalled == scored # NoValue /\ scored.op = "createSearchableText"

\* C16: createSearchableText raises no error, whatever the fields of the
\* record hold.
C16_MalformedFieldsNeverThrow == BuildCalled => ~scored.threw

\* a word of a string, lowercased
JoinWords(words) ==
  JoinParts([k \in DOMAIN words |-> Str(MapLower(words[k]))])

NormalizeCalled ==
  /\ scored # NoValue
  /\ scored.op = "normalizeText"
  /\ scored.input.t \in {"undefined", "null", "string"}

\* C17: normalizeText of null or undefined is the empty string;
\* normalizeText of a string is its maximal runs of word characters,
\* lowercased and joined by single spaces: a string of lowercase word
\* characters and single spaces that neither starts nor ends with
\* whitespace.  It raises no error.
C17_NormalizeText ==
  NormalizeCalled
    => /\ ~scored.threw
       /\ scored.input.t # "string" => scored.text = <<>>
       /\ scored.text = JoinWords(WordRuns(scored.input.s, <<>>))
       /\ \A k \in DOMAIN scored.text :
            /\ scored.text[k] \in (WordChars \cup {" "})
            /\ scored.text[k] = ToLowerChar(scored.text[k])
            /\ scored.text[k] = " "
                 => /\ k \notin {1, Len(scored.text)}
                    /\ scored.text[k + 1] # " "

\* normalizeText of "B!a": an uppercase letter, punctuation between two
\* words
C17_Witness ==
  /\ NormalizeCalled
  /\ scored.input = Str(<<"B", "!", "a">>)
  /\ scored.text = <<"b", " ", "a">>

\* the field order of the text builder
FieldOrder ==
  <<"display", "title", "name_english", "description", "definition",
    "longDefinition", "namc_term", "short_definition", "long_definition">>

ElementsOf(v) == IF v.t = "array" THEN v.a ELSE <<>>

\* the values of a record in field order, the lists flattened
ValuesInOrder(obj) ==
  [k \in DOMAIN FieldOrder |-> obj.text[FieldOrder[k]]]
    \o ElementsOf(obj.text["synonym"])
    \o ElementsOf(obj.text["inclusion"])

\* a text that is not empty, is not the placeholder and is not empty after
\* trimming
IsKeptText(v) ==
  /\ v.t = "string"
  /\ v.s # <<>>
  /\ v.s # <<"-">>
  /\ \E k \in DOMAIN v.s : v.s[k] \notin SpaceChars

RECURSIVE SpaceJoin(_)
SpaceJoin(values) ==
  IF values = <<>> THEN <<>>
  ELSE Head(values).s
         \o (IF Tail(values) = <<>> THEN <<>> ELSE <<" ">>)
         \o SpaceJoin(Tail(values))

IsTextOrAbsent(v) == v.t \in {"undefined", "null", "string"}

\* a record whose fields hold texts or nothing, and whose lists hold texts
\* or nothing
TextRecord(obj) ==
  /\ \A k \in DOMAIN FieldOrder : IsTextOrAbsent(obj.text[FieldOrder[k]])
  /\ \A f \in {"synonym", "inclusion"} :
       \/ IsTextOrAbsent(obj.text[f])
       \/ /\ obj.text[f].t = "array"
          /\ \A k \in DOMAIN obj.text[f].a : IsTextOrAbsent(obj.text[f].a[k])

\* C18: for a record of texts, createSearchableText returns the values of
\* display, title, name_english, description, definition, longDefinition,
\* namc_term, short_definition, long_definition, the elements of synonym
\* and the elements of inclusion, in this order, that are non-empty, are
\* not '-' and are non-empty after trimming, joined by single spaces.
C18_SearchableText ==
  (BuildCalled /\ TextRecord(scored.input))
    => /\ ~scored.threw
       /\ scored.text
            = SpaceJoin(SelectSeq(ValuesInOrder(scored.input), IsKeptText))

\* the record with a text in every field but a placeholder in title, and
\* its searchable text
C18_Witness ==
  /\ BuildCalled
  /\ scored.input = CodeObject("A", "", [FullFields EXCEPT
                                           !["title"] = Str(Dash)])
  /\ scored.text = <<"a", " ", "c", " ", "d", " ", "e", " ", "f", " ", "g",
                     " ", "h", " ", "i", " ", "j", " ", "k", " ", "l">>

\* C19: each sub-score is the library's 0..100 metric for the normalized
\* texts (0 when a text is empty), so it lies in [0,1] once divided by 100;
\* the composite is 0.4 ratio + 0.2 partial_ratio + 0.2 token_sort_ratio
\* + 0.2 token_set_ratio (in thousandths: 4, 2, 2, 2 times the metrics)
\* and lies in [0,1].
C19_CompositeFormula ==
  ScoreCalled
    => LET sub == scored.result.individual
           empty == \/ EmptyWhenNormalized(scored.text1)
                    \/ EmptyWhenNormalized(scored.text2)
           key == <<normalizeText(scored.text1), normalizeText(scored.text2)>>
       IN /\ \A method \in Methods :
               /\ sub[method] \in 0..100
               /\ sub[method] = (IF empty THEN 0 ELSE fuzzball[key][method])
          /\ scored.result.composite
               = 4 * sub.ratio + 2 * sub.partial_ratio
                   + 2 * sub.token_sort_ratio + 2 * sub.token_set_ratio
          /\ scored.result.composite \in 0..1000

\* two texts whose four metrics are 0, 100, 30 and 70: the composite is
\* 0.4
C19_Witness ==
  /\ ScoreCalled
  /\ scored.result.individual = Profile(0, 100, 30, 70)
  /\ scored.result.composite = 400
  /\ scored.text1 # scored.text2

\* the header is Bearer with a token jwt.verify accepts
HasValidToken(header) ==
  /\ header.present
  /\ header.prefix = "Bearer "
  /\ header.token.kind = "valid"

\* C20: a request under /admin without a Bearer header, or with a token
\* that is invalid or expired, is answered with 401 and reaches no route
\* handler; a request with a valid token reaches the handler with req.user
\* set from the token.
C20_AdminRequiresValidToken ==
  request # NoValue
    => IF HasValidToken(request.header)
       THEN /\ request.next
            /\ request.user.id
                 = OrElse(request.header.token.payload.sub,
                          request.header.token.payload.userId)
       ELSE /\ request.status = 401
            /\ ~request.next
            /\ request.handler = "none"
            /\ concept_mappings = SeedRows


\* the request under way has been answered and no callback for it is
\* pending
Settled ==
  /\ http # NoValue
  /\ http.stage = "answered"
  /\ \A k \in DOMAIN immediates : immediates[k].eventId # http.id

\* C21: every request the server handles gets an audit event in
\* audit_events, with outcome 'failure' exactly when the response status
\* is 400 or more and 'success' otherwise.
C21_AllRequestsLogged ==
  Settled
    => \E e \in audit_events :
         /\ e.event_id = http.id
         /\ e.outcome = "failure" <=> http.statusCode >= 400

\* a request with a body that is not JSON has been answered
MalformedBodyLogged ==
  (Settled /\ http.body = "malformed")
    => \E e \in audit_events : e.event_id = http.id

\* the events that are recorded carry the outcome of the claim
RecordedOutcome ==
  \A e \in audit_events :
    e.outcome = "failure" <=> e.response_status >= 400


\* the number of survivors that go before survivor p: those with a greater
\* score, and those with the same score from an earlier target
GoBefore(list, p) ==
  Cardinality({q \in DOMAIN list :
                 \/ list[q].similarity_score > list[p].similarity_score
                 \/ /\ list[q].similarity_score = list[p].similarity_score
                    /\ q < p})

\* C22: in the list findBestMatches returns, entries with equal composite
\* score are in the order of their targets in the target list, also after
\* the truncation to maxResults: the entry at position k is the survivor
\* that k - 1 survivors go before.
C22_TiesInTargetOrder ==
  found # NoValue
    => LET survivors == Survivors(found)
       IN \A k \in DOMAIN found.matches :
            \E p \in DOMAIN survivors :
              /\ GoBefore(survivors, p) = k - 1
              /\ found.matches[k] = survivors[p]

\* the first and the third target tie below the second, and maxResults = 2
\* keeps the second and the first
C22_Witness ==
  /\ found # NoValue
  /\ found.maxResults = 2
  /\ Len(Survivors(found)) = 3
  /\ Survivors(found)[1].similarity_score
       = Survivors(found)[3].similarity_score
  /\ Survivors(found)[1].icd11_code # Survivors(found)[3].icd11_code
  /\ Survivors(found)[2].similarity_score
       > Survivors(found)[1].similarity_score
  /\ found.matches = <<Survivors(found)[2], Survivors(found)[1]>>


\* the store holds a row for the pair of every mapping of the list
AllStored(list, table) ==
  \A k \in DOMAIN list :
    \E r \in table : SamePair(r, list[k].ayurveda_code, list[k].icd11_code)

\* a step of the running invocation that invokes findBestMatches
RankerStep ==
  /\ pc = "loop"
  /\ runs' = runs
  /\ pc' # "done"

\* C23: with saveToDatabase = true the writes are not batched.  A step
\* appends at most one mapping and issues its write in the same step, when
\* the rows of all mappings appended before are in the store; when
\* findBestMatches is invoked for a source, the rows of all mappings of the
\* sources before it are in the store; and once generateMappings has
\* returned, no write of it is left and the store does not change.
C23_WritesNotBatched ==
  [][options'.saveToDatabase
       => /\ saveCalls' = Len(allMappings')
          /\ (runs' = runs /\ allMappings' # allMappings)
               => /\ Len(allMappings') = Len(allMappings) + 1
                  /\ pc' = "save"
                  /\ saveCalls' = saveCalls + 1
                  /\ AllStored(allMappings, concept_mappings')
          /\ RankerStep => AllStored(allMappings, concept_mappings)
          /\ pc' = "done" => /\ AllStored(allMappings', concept_mappings')
                             /\ result'.all = allMappings'
          /\ pc = "done" => UNCHANGED tableVars]_vars

\* an invocation with saveToDatabase = true has returned two mappings of
\* two sources and has issued two writes
C23_Witness ==
  /\ pc = "done"
  /\ options.saveToDatabase
  /\ Len(result.all) = 2
  /\ result.all[1].ayurveda_code # result.all[2].ayurveda_code
  /\ saveCalls = 2
  /\ AllStored(result.all, concept_mappings)


\* list is the start of whole
IsPrefix(list, whole) ==
  /\ Len(list) <= Len(whole)
  /\ list = SubSeq(whole, 1, Len(list))

\* C24: the writes of one generateMappings invocation are serialized.  At
\* most one write it has issued is in flight; every write issued before
\* that one has completed; and the store runs the statements in the order
\* of the mappings in the accumulated list, which is returned as `all`.
C24_WritesSerialized ==
  /\ Len(pending) <= 1
  /\ pending # <<>> <=> pc = "save"
  /\ saveCalls = Len(writeLog) + Len(pending)
                   + (IF pc = "failed" THEN 1 ELSE 0)
  /\ IsPrefix(writeLog \o pending, allMappings)
  /\ (pc = "done" /\ options.saveToDatabase) => writeLog = result.all

\* the second write of a source is in flight after its first has completed
C24_Witness ==
  /\ pc = "save"
  /\ m = 2
  /\ Len(writeLog) >= 1
  /\ writeLog[Len(writeLog)] = matches[1]
  /\ pending = <<matches[2]>>
  /\ matches[1] # matches[2]


\* the sources of the invocation that contribute more than bound entries
\* to the concatenation
Exceeding(bound) ==
  {k \in DOMAIN ayurvedaCodes :
     Len(findBestMatches(ayurvedaCodes[k], icd11Codes,
                         options.maxMatchesPerCode)) > bound}

\* the list an invocation has accumulated is the start of the
\* concatenation, in source order, of the matches of its sources, and the
\* list it returns is the whole of it
Concatenates ==
  /\ pc # "idle"
       => IsPrefix(allMappings,
                   MatchesOfAll(ayurvedaCodes, icd11Codes,
                                options.maxMatchesPerCode, 1))
  /\ pc = "done"
       => result.all = MatchesOfAll(ayurvedaCodes, icd11Codes,
                                    options.maxMatchesPerCode, 1)

\* C25, as amended: the all list generateMappings returns is the
\* concatenation, in source order, of findBestMatches(source, targets,
\* maxMatchesPerCode) over its sources, and for maxMatchesPerCode >= 0 no
\* source contributes more than maxMatchesPerCode entries.
C25_AllIsConcatenation ==
  /\ Concatenates
  /\ (pc = "done" /\ options.maxMatchesPerCode >= 0)
       => Exceeding(options.maxMatchesPerCode) = {}

\* two sources with two matches each have contributed one entry each under
\* maxMatchesPerCode = 1
C25_Witness ==
  /\ pc = "done"
  /\ options.maxMatchesPerCode = 1
  /\ Len(ayurvedaCodes) = 2
  /\ \A k \in 1..2 : Len(CollectMatches(ayurvedaCodes[k], icd11Codes, 1)) = 2
  /\ Len(result.all) = 2
  /\ result.all[1].ayurveda_code = ayurvedaCodes[1].code
  /\ result.all[2].ayurveda_code = ayurvedaCodes[2].code
  /\ ayurvedaCodes[1].code # ayurvedaCodes[2].code

\* C25, as claimed: for every maxMatchesPerCode no source contributes more
\* than maxMatchesPerCode entries.
C25_Original ==
  /\ Concatenates
  /\ pc = "done" => Exceeding(options.maxMatchesPerCode) = {}


\* a step in which the store runs the statement of a write and inserts a
\* row
WriteInserts ==
  /\ Len(writeLog') = Len(writeLog) + 1
  /\ concept_mappings' # concept_mappings

\* what the inserted row holds of the mapping it was created from: the
\* pair, the composite score in columns similarity_score and confidence,
\* and the details
CarriesMapping(r, mapping) ==
  /\ r.namaste_code = mapping.ayurveda_code
  /\ r.icd11_code = mapping.icd11_code
  /\ r.similarity_score = mapping.similarity_score
  /\ r.confidence = mapping.similarity_score
  /\ r.equivalence = "equivalent"
  /\ r.mapping_type = "automatic"
  /\ r.mapping_details.similarity_details = mapping.similarity_details
  /\ DOMAIN r.mapping_details.similarity_details = Methods
  /\ r.mapping_details.ayurveda_text = mapping.ayurveda_text
  /\ r.mapping_details.icd11_text = mapping.icd11_text

\* C26, as amended: the write of a generated mapping hands over its pair,
\* its composite score (for both columns confidence and similarity_score)
\* and its details; the inserted row holds these, and its score is at or
\* above the high-confidence threshold exactly when the tier of the mapping
\* is "high".  The tier itself is not handed over.
C26_StoredRecord ==
  [][WriteInserts
       => LET mapping == writeLog'[Len(writeLog')]
              rows == concept_mappings' \ concept_mappings
          IN /\ Cardinality(rows) = 1
             /\ \A r \in rows :
                  /\ CarriesMapping(r, mapping)
                  /\ r.similarity_score >= highConfidenceThreshold
                       <=> mapping.confidence = "high"]_vars

\* the store holds the row of a written mapping of tier "medium" and the
\* row of one of tier "high"
C26_Witness ==
  \E k1, k2 \in DOMAIN writeLog :
    /\ writeLog[k1].confidence = "medium"
    /\ writeLog[k2].confidence = "high"
    /\ \E r1, r2 \in concept_mappings :
         /\ CarriesMapping(r1, writeLog[k1])
         /\ CarriesMapping(r2, writeLog[k2])

\* the columns of a row that hold text, and whether one of them or the
\* details hold the tier of the mapping
TextColumns == {"equivalence", "mapping_type", "created_by"}

CarriesTier(r, mapping) ==
  \/ \E column \in TextColumns : r[column] = mapping.confidence
  \/ /\ "confidence" \in DOMAIN r.mapping_details
     /\ r.mapping_details.confidence = mapping.confidence

\* C26, as claimed: the inserted row carries the tier of the mapping it was
\* created from.
C26_Original ==
  [][WriteInserts
       => LET mapping == writeLog'[Len(writeLog')]
          IN \A r \in concept_mappings' \ concept_mappings :
               /\ CarriesMapping(r, mapping)
               /\ CarriesTier(r, mapping)]_vars


\* the rows of the pairs other than that of the mapping
RowsOfOthers(table, mp) == table \ RowsOfPair(table, mp)

\* a step in which the store runs the statement of a write with
\* overwriteExisting = true for a pair that has a row
Overwrites ==
  /\ Len(writeLog') = Len(writeLog) + 1
  /\ options.overwriteExisting
  /\ RowsOfPair(concept_mappings, writeLog'[Len(writeLog')]) # {}

\* C27, as amended: a write with overwriteExisting = true for a pair that
\* has a stored mapping replaces the row: the new row has a fresh id,
\* greater than every id given before, no created_by, and the time of the
\* write as created_at; the rows of all other pairs are left as they were.
C27_OverwriteReplacesRow ==
  [][Overwrites
       => LET mapping == writeLog'[Len(writeLog')]
          IN /\ RowsOfOthers(concept_mappings', mapping)
                  = RowsOfOthers(concept_mappings, mapping)
             /\ Cardinality(RowsOfPair(concept_mappings', mapping)) = 1
             /\ \A r \in RowsOfPair(concept_mappings', mapping) :
                  /\ CarriesMapping(r, mapping)
                  /\ r.id = sqlite_sequence'
                  /\ r.id > sqlite_sequence
                  /\ \A r0 \in concept_mappings : r.id > r0.id
                  /\ r.created_by = Null
                  /\ r.created_at = now']_vars

\* the first write of an invocation with overwriteExisting = true has
\* replaced the row a pair had when the invocation was called, next to the
\* row of another pair
C27_Witness ==
  /\ options.overwriteExisting
  /\ Len(writeLog) = 1
  /\ \E r0 \in RowsOfPair(before, writeLog[1]) :
       \E r \in RowsOfPair(concept_mappings, writeLog[1]) :
         /\ r.id > r0.id
         /\ r.created_at > r0.created_at
  /\ RowsOfOthers(before, writeLog[1]) # {}
  /\ RowsOfOthers(concept_mappings, writeLog[1])
       = RowsOfOthers(before, writeLog[1])

\* C27, as claimed: the row of the pair keeps its id, created_by and
\* created_at, and the rows of all other pairs are left as they were.
C27_Original ==
  [][Overwrites
       => LET mapping == writeLog'[Len(writeLog')]
          IN /\ RowsOfOthers(concept_mappings', mapping)
                  = RowsOfOthers(concept_mappings, mapping)
             /\ \A r \in RowsOfPair(concept_mappings', mapping) :
                  \A r0 \in RowsOfPair(concept_mappings, mapping) :
                    /\ CarriesMapping(r, mapping)
                    /\ r.id = r0.id
                    /\ r.created_by = r0.created_by
                    /\ r.created_at = r0.created_at]_vars


\* C28: getConceptMap('namaste-to-icd11') returns the elements of the
\* mappings that are in the store (with codes in both code tables), and the
\* copy in fhir_resources is never stale.
C28_ConceptMapIsCurrent ==
  /\ (served # NoValue /\ served.op = "getConceptMap")
       => served.conceptMap
            = createNAMASTEToICD11ConceptMap(concept_mappings)
  /\ \A row \in fhir_resources :
       row.content = createNAMASTEToICD11ConceptMap(concept_mappings)

\* the copy in fhir_resources is current when addMapping has just written
\* it
FreshAfterAddMapping ==
  (served # NoValue /\ served.op = "addMapping" /\ served.outcome = "added")
    => fhir_resources
         = {ConceptMapRow(createNAMASTEToICD11ConceptMap(concept_mappings))}

\* a step that is a call of addMapping
AddMappingCalled ==
  /\ served' # served
  /\ served' # NoValue
  /\ served'.op = "addMapping"

\* C29: a call of addMapping that does not succeed leaves the store and
\* the cached ConceptMap as they were; for a stored pair it returns
\* {success: false} and does not throw; for a code that is absent from its
\* code table it throws and inserts nothing; and it inserts one row, and
\* then exactly one, only when both codes exist and the pair is new.
C29_AddMappingFailure ==
  [][AddMappingCalled
       => LET stored == \E r \in concept_mappings :
                          SamePair(r, served'.namasteCode,
                                   served'.icd11Code)
              codesExist == /\ served'.namasteCode \in namaste_codes
                            /\ served'.icd11Code \in icd11_codes
          IN /\ served'.outcome # "added"
                  => UNCHANGED <<concept_mappings, fhir_resources>>
             /\ stored => served'.outcome = "exists"
             /\ ~codesExist
                  => /\ served'.outcome = "thrown"
                     /\ UNCHANGED concept_mappings
             /\ concept_mappings \subseteq concept_mappings'
             /\ Cardinality(concept_mappings' \ concept_mappings)
                  = (IF codesExist /\ ~stored THEN 1 ELSE 0)]_vars

\* the parts of C29 that hold: addMapping never removes or changes a row,
\* inserts one row exactly when both codes exist and the pair is new, and
\* writes the cached ConceptMap only when it succeeds
AddMappingInserts ==
  [][AddMappingCalled
       => LET stored == \E r \in concept_mappings :
                          SamePair(r, served'.namasteCode,
                                   served'.icd11Code)
              codesExist == /\ served'.namasteCode \in namaste_codes
                            /\ served'.icd11Code \in icd11_codes
          IN /\ concept_mappings \subseteq concept_mappings'
             /\ Cardinality(concept_mappings' \ concept_mappings)
                  = (IF codesExist /\ ~stored THEN 1 ELSE 0)
             /\ served'.outcome # "added" => UNCHANGED fhir_resources
             /\ (codesExist /\ stored) => served'.outcome = "exists"]_vars


\* the invocation is under way
Running == pc \in {"loop", "save", "pause"}

\* C30: an invocation of generateMappings whose writes complete
\* successfully and whose pause timer fires eventually returns its result;
\* the loop index never goes back, every entry of the loop is for the next
\* source, and the invocation returns when every source has been
\* processed.
C30_Terminates ==
  /\ Running ~> (pc = "done" /\ result # NoValue)
  /\ [][runs' = runs
          => /\ pc' = "loop" => i' = i + 1
             /\ pc' \in {"save", "pause"} => i' = i
             /\ pc' = "done" => i' = i /\ i = Len(ayurvedaCodes)]_vars

\* an invocation over eleven sources has returned after eleven writes and
\* the pause after the eleventh source
C30_Witness ==
  /\ pc = "done"
  /\ Len(ayurvedaCodes) = 11
  /\ i = 11
  /\ saveCalls = 11
  /\ Len(writeLog) = 11

=============================================================================
